---------------------------- MODULE Spec2Model ----------------------------
(***************************************************************************)
(* Provenance-graph encoders of incf-nidash/notebooks:                     *)
(*   fs_upload_to_triplesore.py  (encode_fs_directory, create_entity,      *)
(*                                to_graph, upload_graph)                  *)
(*   query_convert_fs_stats.py   (parse_stats, job, process_collection)    *)
(*   scripts/csv2prov.py         (csv2provgraph)                           *)
(* Text is modelled as a sequence of one-character strings, so that the    *)
(* substring, split and strip operations of the code are computed.         *)
(***************************************************************************)
EXTENDS Integers, Sequences, FiniteSets, TLC

VARIABLES
    \* the PROV bundle of the running job and the uuid1() call count
    g_rec, g_rel, uuid,
    \* encode_fs_directory / to_graph
    fs_pc, rootExists, present, n_items, i, visited, dirpath, filenames,
    fsdir_collection,
    \* history: the files line 150 counted, in traversal order
    counted,
    \* parse_stats
    st_pc, measures, mpos, struct_info, measure_list, stat_collection,
    statheader_collection,
    \* csv2provgraph
    csv_pc, isnan_of_str, columns, data, n_rows, row_count, col_id, rpos,
    column_uri, csv_id, column_collection,
    \* upload_graph
    up_pc, stmts, counter, posted, result,
    \* job / process_collection
    job_pc, results, rowpos, answers, fetched, parsed, returned, uploaded,
    \* hash_infile
    h_pc, afile, crypto, chunk_len, fp, crypto_obj, hex, open_files, opens,
    \* the notebook's encode_fs_directory, run twice over the same directory
    nb_pc, run, walk_order, first_rec, first_rel,
    \* read_stats
    rs_pc, rs_error, report, lpos, header, tableinfo, rs_measures, struct_idx,
    \* FileServer.file, per request thread, and the links of FILE_DIR
    sv_pc, file_uri, fullpath, file_hash, object_hash, reply, links, served

gVars == <<g_rec, g_rel, uuid>>
fsVars == <<fs_pc, rootExists, present, n_items, i, visited, dirpath,
            filenames, fsdir_collection, counted>>
stVars == <<st_pc, measures, mpos, struct_info, measure_list,
            stat_collection, statheader_collection>>
csvVars == <<csv_pc, isnan_of_str, columns, data, n_rows, row_count, col_id,
             rpos, column_uri, csv_id, column_collection>>
upVars == <<up_pc, stmts, counter, posted, result>>
jobVars == <<job_pc, results, rowpos, answers, fetched, parsed, returned,
             uploaded>>
hashVars == <<h_pc, afile, crypto, chunk_len, fp, crypto_obj, hex, open_files,
              opens>>
nbVars == <<nb_pc, run, walk_order, first_rec, first_rel>>
rsVars == <<rs_pc, rs_error, report, lpos, header, tableinfo, rs_measures,
            struct_idx>>
svVars == <<sv_pc, file_uri, fullpath, file_hash, object_hash, reply, links,
            served>>
vars == <<gVars, fsVars, stVars, csvVars, upVars, jobVars, hashVars, nbVars,
          rsVars, svVars>>

---------------------------------------------------------------------------
\* Bounds of the model.
MaxFiles == 3
MaxItems == 3
MaxMeasures == 3
MaxCsvRows == 2
MaxStmts == 2001
MaxJobRows == 3
MaxBytes == 4
MaxChunk == 3
MaxRunFiles == 3
MaxCols == 3
MaxRows == 2
MaxRequests == 3

---------------------------------------------------------------------------
\* Python str operations on character sequences.

\* the characters the model uses, in ASCII order
Ascii == <<" ", ".", "/", "1", "2", "3", "9", ":", "A", "B", "T", "_",
           "a", "b", "c", "d", "e", "f", "g", "h", "i", "k", "l", "m", "n",
           "o", "p", "r", "s", "t", "u", "x", "z">>

Ord(c) == CHOOSE k \in 1..Len(Ascii) : Ascii[k] = c

\* key in s
Contains(key, s) ==
    \E p \in 0..(Len(s) - Len(key)) : SubSeq(s, p + 1, p + Len(key)) = key

\* s.startswith(pre)
StartsWith(s, pre) ==
    Len(s) >= Len(pre) /\ SubSeq(s, 1, Len(pre)) = pre

\* s.find(sep) + 1 (0 when sep does not occur)
FindFirst(sep, s) ==
    LET P == {p \in 1..(Len(s) - Len(sep) + 1) :
                 SubSeq(s, p, p + Len(sep) - 1) = sep}
    IN IF P = {} THEN 0 ELSE CHOOSE p \in P : \A q \in P : p <= q

\* s.split(sep)
RECURSIVE Split(_, _)
Split(s, sep) ==
    LET p == FindFirst(sep, s)
    IN IF p = 0 THEN <<s>>
       ELSE <<SubSeq(s, 1, p - 1)>>
            \o Split(SubSeq(s, p + Len(sep), Len(s)), sep)

\* s.lstrip(cs), s.rstrip(cs)
RECURSIVE LStrip(_, _)
LStrip(s, cs) ==
    IF s # <<>> /\ Head(s) \in cs THEN LStrip(Tail(s), cs) ELSE s

RECURSIVE RStrip(_, _)
RStrip(s, cs) ==
    IF s # <<>> /\ s[Len(s)] \in cs
    THEN RStrip(SubSeq(s, 1, Len(s) - 1), cs) ELSE s

\* s.replace(a, b) for single characters a, b
Replace(s, a, b) == [k \in 1..Len(s) |-> IF s[k] = a THEN b ELSE s[k]]

\* a < b on str
RECURSIVE LexLess(_, _)
LexLess(a, b) ==
    IF a = <<>> THEN b # <<>>
    ELSE IF b = <<>> THEN FALSE
    ELSE IF Head(a) = Head(b) THEN LexLess(Tail(a), Tail(b))
    ELSE Ord(Head(a)) < Ord(Head(b))

\* sorted(names)
RECURSIVE Sorted(_)
Sorted(S) ==
    IF S = {} THEN <<>>
    ELSE LET m == CHOOSE x \in S : \A y \in S \ {x} : LexLess(x, y)
         IN <<m>> \o Sorted(S \ {m})

\* x in seq
InSeq(x, seq) == \E k \in 1..Len(seq) : seq[k] = x

\* seq[:-1] and seq[-1]
ButLast(seq) == SubSeq(seq, 1, Len(seq) - 1)
Last(seq) == seq[Len(seq)]

\* os.path.join(a, b), os.path.split(p)[1]
PathJoin(a, b) == IF b = <<>> THEN a ELSE a \o <<"/">> \o b
Basename(p) == Last(Split(p, <<"/">>))

---------------------------------------------------------------------------
\* PROV values, identifiers, records and relations.

\* a qualified name ns[local]; a literal with lexical form s; a qualified
\* name used as a value; a URI made of a fixed base and a variable tail s
QN(ns, local) == [ns |-> ns, local |-> local]
Lit(s) == [t |-> "lit", u |-> QN("", ""), s |-> s]
TypedLit(ty, s) == [t |-> ty, u |-> QN("", ""), s |-> s]
Uri(u) == [t |-> "uri", u |-> u, s |-> <<>>]
UriRef(base, s) == [t |-> "uri", u |-> QN(base, ""), s |-> s]
Attr(k, v) == [key |-> k, val |-> v]

\* niiri[uuid1().hex] for the n-th call of uuid1, niiri[hex + '/' + local]
NiiriId(n) == [ns |-> "niiri", hex |-> n, local |-> <<>>]
NiiriLocal(n, local) == [ns |-> "niiri", hex |-> n, local |-> <<"/">> \o local]

\* ProvBundle.entity / collection / activity / agent
Rec(kind, id, attrs) == [kind |-> kind, id |-> id, attrs |-> attrs]
\* ProvBundle.hadMember / wasDerivedFrom / wasGeneratedBy / wasAssociatedWith
Rel(rel, a, b) == [rel |-> rel, from |-> a, to |-> b]

\* ProvRecord.add_extra_attributes on the record at position k
AddExtraAttributes(recs, k, attrs) ==
    [recs EXCEPT ![k].attrs = @ \o attrs]

\* a derivation of the collection from itself
DerivationFromSelf(coll, src) == Rel("wasDerivedFrom", coll, coll)

\* g.wasDerivedFrom(collection, source) / g.derivation(collection, source)
Derivation(coll, src) == Rel("wasDerivedFrom", coll, src)

RecIds == {g_rec[k].id : k \in 1..Len(g_rec)}
Members(c) == {k \in 1..Len(g_rel) :
                  g_rel[k].rel = "hadMember" /\ g_rel[k].from = c}

---------------------------------------------------------------------------
\* fs_upload_to_triplesore.py: configuration tables.

fs_file_map == <<
    [key |-> <<"T", "1">>,
     uris |-> <<[tuple |-> FALSE, k |-> QN("", ""), v |-> QN("nif", "nlx_inv_20090243")]>>],
    [key |-> <<"l", "h">>,
     uris |-> <<[tuple |-> TRUE, k |-> QN("nidm", "AnatomicalAnnotation"), v |-> QN("obo", "UBERON_0002812")]>>],
    [key |-> <<"r", "h">>,
     uris |-> <<[tuple |-> TRUE, k |-> QN("nidm", "AnatomicalAnnotation"), v |-> QN("obo", "UBERON_0002813")]>>],
    [key |-> <<"B", "A", ".">>,
     uris |-> <<[tuple |-> TRUE, k |-> QN("nidm", "AnatomicalAnnotation"), v |-> QN("obo", "UBERON_0013529")]>>],
    [key |-> <<"B", "A", "1", ".">>,
     uris |-> <<[tuple |-> TRUE, k |-> QN("nidm", "AnatomicalAnnotation"), v |-> QN("obo", "UBERON_0006099")]>>],
    [key |-> <<"B", "A", "2", ".">>,
     uris |-> <<[tuple |-> TRUE, k |-> QN("nidm", "AnatomicalAnnotation"), v |-> QN("obo", "UBERON_0013533")]>>],
    [key |-> <<"B", "A", "3", "a", ".">>,
     uris |-> <<[tuple |-> TRUE, k |-> QN("nidm", "AnatomicalAnnotation"), v |-> QN("obo", "UBERON_0006100")],
                [tuple |-> TRUE, k |-> QN("nidm", "AnatomicalAnnotation"), v |-> QN("obo", "FMA_74532")]>>],
    [key |-> <<"B", "A", "3", "b", ".">>,
     uris |-> <<[tuple |-> TRUE, k |-> QN("nidm", "AnatomicalAnnotation"), v |-> QN("obo", "UBERON_0006100")],
                [tuple |-> TRUE, k |-> QN("nidm", "AnatomicalAnnotation"), v |-> QN("obo", "FMA_74533")]>>],
    [key |-> <<"B", "A", "4", "4", ".">>,
     uris |-> <<[tuple |-> TRUE, k |-> QN("nidm", "AnatomicalAnnotation"), v |-> QN("obo", "UBERON_0006481")]>>],
    [key |-> <<"B", "A", "4", "5", ".">>,
     uris |-> <<[tuple |-> TRUE, k |-> QN("nidm", "AnatomicalAnnotation"), v |-> QN("obo", "UBERON_0006482")]>>],
    [key |-> <<"B", "A", "4", "a", ".">>,
     uris |-> <<[tuple |-> TRUE, k |-> QN("nidm", "AnatomicalAnnotation"), v |-> QN("obo", "UBERON_0013535")],
                [tuple |-> TRUE, k |-> QN("nidm", "AnatomicalAnnotation"), v |-> QN("obo", "FMA_74532")]>>],
    [key |-> <<"B", "A", "4", "p", ".">>,
     uris |-> <<[tuple |-> TRUE, k |-> QN("nidm", "AnatomicalAnnotation"), v |-> QN("obo", "UBERON_0013535")],
                [tuple |-> TRUE, k |-> QN("nidm", "AnatomicalAnnotation"), v |-> QN("obo", "FMA_74533")]>>],
    [key |-> <<"B", "A", "6", ".">>,
     uris |-> <<[tuple |-> TRUE, k |-> QN("nidm", "AnatomicalAnnotation"), v |-> QN("obo", "UBERON_0006472")]>>],
    [key |-> <<"V", "1", ".">>,
     uris |-> <<[tuple |-> TRUE, k |-> QN("nidm", "AnatomicalAnnotation"), v |-> QN("obo", "UBERON_0002436")]>>],
    [key |-> <<"V", "2", ".">>,
     uris |-> <<[tuple |-> TRUE, k |-> QN("nidm", "AnatomicalAnnotation"), v |-> QN("obo", "UBERON_0006473")]>>],
    [key |-> <<"M", "T">>,
     uris |-> <<[tuple |-> TRUE, k |-> QN("nidm", "AnatomicalAnnotation"), v |-> QN("fs", "MT_area")]>>],
    [key |-> <<"e", "n", "t", "o", "r", "h", "i", "n", "a", "l">>,
     uris |-> <<[tuple |-> TRUE, k |-> QN("nidm", "AnatomicalAnnotation"), v |-> QN("obo", "UBERON_0002728")]>>],
    [key |-> <<"e", "x", "v", "i", "v", "o">>,
     uris |-> <<[tuple |-> TRUE, k |-> QN("nidm", "AnnotationSource"), v |-> QN("fs", "exvivo")]>>],
    [key |-> <<"l", "a", "b", "e", "l">>,
     uris |-> <<[tuple |-> TRUE, k |-> QN("fs", "FileType"), v |-> QN("fs", "label_file")]>>],
    [key |-> <<"a", "n", "n", "o", "t">>,
     uris |-> <<[tuple |-> TRUE, k |-> QN("fs", "FileType"), v |-> QN("fs", "annotation_file")]>>],
    [key |-> <<"c", "o", "r", "t", "e", "x">>,
     uris |-> <<[tuple |-> TRUE, k |-> QN("nidm", "AnatomicalAnnotation"), v |-> QN("obo", "UBERON_0000956")]>>],
    [key |-> <<".", "s", "t", "a", "t", "s">>,
     uris |-> <<[tuple |-> TRUE, k |-> QN("fs", "FileType"), v |-> QN("fs", "statistic_file")]>>],
    [key |-> <<"a", "p", "a", "r", "c", ".", "a", "n", "n", "o", "t">>,
     uris |-> <<[tuple |-> TRUE, k |-> QN("nidm", "AtlasName"), v |-> QN("fs", "default_parcellation")]>>],
    [key |-> <<"a", "p", "a", "r", "c", ".", "a", "2", "0", "0", "9", "s">>,
     uris |-> <<[tuple |-> TRUE, k |-> QN("nidm", "AtlasName"), v |-> QN("fs", "a2009s_parcellation")]>>],
    [key |-> <<".", "c", "t", "a", "b">>,
     uris |-> <<[tuple |-> TRUE, k |-> QN("fs", "FileType"), v |-> QN("fs", "color_table")]>> ] >>

ignore_list == << <<"b", "a", "k">>, <<"s", "r", "c">>, <<"t", "m", "p">>, <<"t", "r", "a", "s", "h">>, <<"t", "o", "u", "c", "h">> >>

---------------------------------------------------------------------------
\* The file tree encode_fs_directory walks.  basedir is the absolute subject
\* directory to_graph passes on; the tree holds some of the files below.

basedir == <<"/", "s", "/", "b", "e", "r", "t">>
project_id == <<"p", "1">>
hostname == <<"h">>

\* to_graph: basedir.rstrip(os.path.sep).split(os.path.sep)[-1]
subject_id == Last(Split(RStrip(basedir, {"/"}), <<"/">>))

\* dir: the directory below basedir ("" for basedir itself); link: the
\* target when the name is a symbolic link; isfile: os.path.isfile of the
\* real path; readable: whether opening it for reading succeeds
File(dir, name, link, isfile, readable, content) ==
    [dir |-> dir, name |-> name, link |-> link, isfile |-> isfile,
     readable |-> readable, content |-> content]

Catalog == <<
    File(<<>>, <<".", "x">>, <<>>, TRUE, TRUE, <<"a">>),
    File(<<"m", "r", "i">>, <<"T", "1", ".", "m", "g", "z">>, <<>>, TRUE, TRUE, <<"b">>),
    File(<<"l", "a", "b", "e", "l">>, <<"l", "h", ".", "B", "A", "1", ".", "l", "a", "b", "e", "l">>, <<>>, TRUE, TRUE, <<"c">>),
    File(<<"l", "a", "b", "e", "l">>, <<"l", "h", ".", "r", "h">>, <<>>, TRUE, TRUE, <<"c">>),
    File(<<"b", "a", "k">>, <<"a">>, <<>>, TRUE, TRUE, <<"a">>),
    File(<<"m", "r", "i">>, <<"t", "o", "u", "c", "h">>, <<>>, TRUE, TRUE, <<"a">>),
    File(<<"m", "r", "i">>, <<"s", "r", "c", ".", "t", "m", "p">>, <<>>, TRUE, TRUE, <<"b">>),
    File(<<"m", "r", "i">>, <<"f", "i", "f", "o">>, <<>>, FALSE, TRUE, <<>>),
    File(<<"s", "t", "a", "t", "s">>, <<"l", "h", ".", "s", "t", "a", "t", "s">>, <<>>, TRUE, FALSE, <<"d">>),
    File(<<"m", "r", "i">>, <<"l", "n">>, <<"/", "x", "/", "l", "n">>, TRUE, TRUE, <<"a">>),
    File(<<"m", "r", "i">>, <<"b", "e", "r", "t", ".", "m", "g", "z">>, <<>>, TRUE, TRUE, <<"b">>),
    File(<<"l", "a", "b", "e", "l">>, <<"l", "h", ".", "a", "p", "a", "r", "c", ".", "a", "n", "n", "o", "t">>, <<>>, TRUE, TRUE, <<"d">>) >>

FileIds == 1..Len(Catalog)

\* os.path.realpath(os.path.join(dirpath, filename))
RealPath(f) ==
    IF Catalog[f].link # <<>> THEN Catalog[f].link
    ELSE PathJoin(PathJoin(basedir, Catalog[f].dir), Catalog[f].name)

\* the directories os.walk(os.path.realpath(basedir)) yields
WalkDirs ==
    IF rootExists THEN {<<>>} \cup {Catalog[f].dir : f \in present} ELSE {}

\* the filenames of directory d
NamesIn(d) == {Catalog[f].name : f \in {x \in present : Catalog[x].dir = d}}

FileAt(d, name) ==
    CHOOSE f \in present : Catalog[f].dir = d /\ Catalog[f].name = name

---------------------------------------------------------------------------
\* hash_infile: the hex digest of the file's bytes (None is not modelled as
\* a result here: create_entity is only reached for regular files).
\* crypto_obj.hexdigest() after the updates fed it the bytes in data
hexdigest(algo, bytes) == algo \o <<":">> \o bytes

hash_infile(f, algo) == hexdigest(algo, Catalog[f].content)

---------------------------------------------------------------------------
\* create_entity

\* relpath
relpath(filepath) == LStrip(Split(filepath, subject_id)[2], {"/"})
fstypes(filepath) == ButLast(Split(relpath(filepath), <<"/">>))
additional_types(filepath) ==
    Split(Last(Split(relpath(filepath), <<"/">>)), <<".">>)

TagAttrs(keys) == [k \in 1..Len(keys) |-> Attr(QN("nidm", "tag"), Lit(keys[k]))]

UriAttrs(uris) ==
    [k \in 1..Len(uris) |->
        IF uris[k].tuple THEN Attr(uris[k].k, Uri(uris[k].v))
        ELSE Attr(QN("prov", "type"), Uri(uris[k].v))]

\* the table walk stopping at the first entry that matches
RECURSIVE MapAttrsFirstOnly(_, _, _)
MapAttrsFirstOnly(k, filename, segs) ==
    IF k > Len(fs_file_map) THEN <<>>
    ELSE LET key == fs_file_map[k].key
             stripped == LStrip(RStrip(key, {"."}), {"."})
         IN IF Contains(key, filename)
            THEN (IF ~InSeq(stripped, segs)
                  THEN <<Attr(QN("nidm", "tag"), Lit(stripped))>>
                  ELSE <<>>)
                 \o UriAttrs(fs_file_map[k].uris)
            ELSE MapAttrsFirstOnly(k + 1, filename, segs)

\* the table walk adding the stripped token as a tag in every case
RECURSIVE MapAttrsAlwaysTags(_, _, _)
MapAttrsAlwaysTags(k, filename, segs) ==
    IF k > Len(fs_file_map) THEN <<>>
    ELSE (IF Contains(fs_file_map[k].key, filename)
          THEN <<Attr(QN("nidm", "tag"),
                      Lit(LStrip(RStrip(fs_file_map[k].key, {"."}), {"."})))>>
               \o UriAttrs(fs_file_map[k].uris)
          ELSE <<>>)
         \o MapAttrsAlwaysTags(k + 1, filename, segs)

\* for key, uris in fs_file_map: ... (entries k..end of the table)
RECURSIVE MapAttrs(_, _, _)
MapAttrs(k, filename, segs) ==
    IF k > Len(fs_file_map) THEN <<>>
    ELSE LET key == fs_file_map[k].key
             stripped == LStrip(RStrip(key, {"."}), {"."})
             here == IF Contains(key, filename)
                     THEN (IF ~InSeq(stripped, segs)
                           THEN <<Attr(QN("nidm", "tag"), Lit(stripped))>>
                           ELSE <<>>)
                          \o UriAttrs(fs_file_map[k].uris)
                     ELSE <<>>
         IN here \o MapAttrs(k + 1, filename, segs)

\* what create_entity raises for file f: the split on the subject id comes
\* first, then hash_infile opens the file
CreateEntityRaises(f) ==
    IF Len(Split(RealPath(f), subject_id)) < 2 THEN "IndexError"
    ELSE IF ~Catalog[f].readable THEN "IOError"
    ELSE "none"

obj_attr(f) ==
    LET filepath == RealPath(f)
        filename == Basename(filepath)
    IN << Attr(QN("prov", "label"), Lit(filename)),
          Attr(QN("fs", "relative_path"), Lit(relpath(filepath))),
          Attr(QN("prov", "location"),
               UriRef("http://computor.mit.edu:10101/file?file_uri=file://",
                      hostname \o filepath)),
          Attr(QN("crypto", "md5"), Lit(hash_infile(f, <<"m", "d", "5">>))),
          Attr(QN("crypto", "sha"), Lit(hash_infile(f, <<"s", "h", "a", "5", "1", "2">>))) >>
       \o TagAttrs(fstypes(filepath))
       \o TagAttrs(additional_types(filepath))
       \o MapAttrs(1, filename, fstypes(filepath) \o additional_types(filepath))

\* graph.entity(niiri[uuid.uuid1().hex], obj_attr)
create_entity(f) == Rec("entity", NiiriId(uuid + 1), obj_attr(f))

---------------------------------------------------------------------------
\* encode_fs_directory

\* the flag assigned, not only raised, by every key: the last key decides
RECURSIVE IgnoreLoopLastWins(_, _, _)
IgnoreLoopLastWins(k, file2encode, found) ==
    IF k > Len(ignore_list) THEN found
    ELSE IgnoreLoopLastWins(k + 1, file2encode,
                            Contains(ignore_list[k], file2encode))

\* for key in ignore_list: if key in file2encode: ignore_key_found = True
RECURSIVE IgnoreLoop(_, _, _)
IgnoreLoop(k, file2encode, found) ==
    IF k > Len(ignore_list) THEN found
    ELSE IgnoreLoop(k + 1, file2encode,
                    IF Contains(ignore_list[k], file2encode) THEN TRUE
                    ELSE found)

\* a walk that ignores no file
IgnoreNothing(file2encode) == FALSE

ignore_key_found(file2encode) == IgnoreLoop(1, file2encode, FALSE)

\* the cap test off by one, and a handler that catches nothing
CapReachedOffByOne(count, cap) == count >= cap
CaughtNothing(exc) == FALSE

\* a cap test that holds for the first file past the cap only
CapReachedOnlyOnce(count, cap) == count = cap + 1

\* line 151: if i > n_items: break
CapReached(count, cap) == count > cap

\* line 167: except IOError
Caught(exc) == exc = "IOError"

DefaultNItems == 100000

FsInit ==
    /\ fs_pc = "start"
    /\ rootExists \in BOOLEAN
    /\ present \in {P \in SUBSET FileIds :
                        /\ Cardinality(P) <= MaxFiles
                        /\ ~rootExists => P = {}}
    /\ n_items \in (0..MaxItems) \cup {DefaultNItems}
    /\ i = 0
    /\ visited = {}
    /\ dirpath = <<>>
    /\ filenames = <<>>
    /\ fsdir_collection = NiiriId(0)
    /\ counted = <<>>

\* lines 124-145: the collection, the directory entity, the activity, the
\* agent and their relations
FsSetup ==
    /\ fs_pc = "start"
    /\ fsdir_collection' = NiiriId(uuid + 1)
    /\ g_rec' = g_rec \o <<
          Rec("collection", NiiriId(uuid + 1),
              << Attr(QN("prov", "type"), Uri(QN("fs", "subject_directory"))),
                 Attr(QN("nidm", "tag"), Lit(project_id)),
                 Attr(QN("fs", "subject_id"), Lit(subject_id)) >>),
          Rec("entity", NiiriId(uuid + 2),
              << Attr(QN("prov", "location"), UriRef("file://", hostname \o basedir)) >>),
          Rec("activity", NiiriId(uuid + 3), <<>>),
          Rec("agent", NiiriId(uuid + 4),
              << Attr(QN("prov", "type"), Uri(QN("prov", "Person"))) >>) >>
    /\ g_rel' = g_rel \o <<
          Derivation(NiiriId(uuid + 1), NiiriId(uuid + 2)),
          Rel("wasAssociatedWith", NiiriId(uuid + 3), NiiriId(uuid + 4)),
          Rel("wasGeneratedBy", NiiriId(uuid + 1), NiiriId(uuid + 3)) >>
    /\ uuid' = uuid + 4
    /\ i' = 0
    /\ fs_pc' = "walk"
    /\ UNCHANGED <<rootExists, present, n_items, visited, dirpath, filenames,
                   counted>>

\* os.walk yields the next directory, top down: basedir first
FsNextDir ==
    /\ fs_pc = "walk"
    /\ \E d \in WalkDirs \ visited :
          /\ d = <<>> \/ <<>> \in visited
          /\ visited' = visited \cup {d}
          /\ dirpath' = d
          /\ filenames' = Sorted(NamesIn(d))
    /\ fs_pc' = "indir"
    /\ UNCHANGED <<gVars, rootExists, present, n_items, i, fsdir_collection,
                   counted>>

\* lines 147-168: one iteration of the loop over sorted(filenames)
FsFile ==
    /\ fs_pc = "indir"
    /\ filenames # <<>>
    /\ LET filename == Head(filenames)
           f == FileAt(dirpath, filename)
           file2encode == RealPath(f)
           entity == create_entity(f)
       IN IF StartsWith(filename, <<".">>)
          THEN /\ filenames' = Tail(filenames)
               /\ UNCHANGED <<gVars, i, fs_pc, counted>>
          ELSE /\ i' = i + 1
               /\ counted' = Append(counted, f)
               /\ IF CapReached(i + 1, n_items)
                  THEN /\ filenames' = <<>>
                       /\ UNCHANGED <<gVars, fs_pc>>
                  ELSE IF ~Catalog[f].isfile \/ ignore_key_found(file2encode)
                  THEN /\ filenames' = Tail(filenames)
                       /\ UNCHANGED <<gVars, fs_pc>>
                  ELSE IF CreateEntityRaises(f) = "none"
                  THEN /\ g_rec' = Append(g_rec, entity)
                       /\ g_rel' = Append(g_rel,
                             Rel("hadMember", fsdir_collection, entity.id))
                       /\ uuid' = uuid + 1
                       /\ filenames' = Tail(filenames)
                       /\ UNCHANGED fs_pc
                  ELSE IF Caught(CreateEntityRaises(f))
                  THEN /\ filenames' = Tail(filenames)
                       /\ UNCHANGED <<gVars, fs_pc>>
                  ELSE /\ fs_pc' = "raised"
                       /\ UNCHANGED <<gVars, filenames>>
    /\ UNCHANGED <<rootExists, present, n_items, visited, dirpath,
                   fsdir_collection>>

\* the loop over this directory's filenames is over
FsDirDone ==
    /\ fs_pc = "indir"
    /\ filenames = <<>>
    /\ fs_pc' = "walk"
    /\ UNCHANGED <<gVars, rootExists, present, n_items, i, visited, dirpath,
                   filenames, fsdir_collection, counted>>

\* line 169: return g
FsReturn ==
    /\ fs_pc = "walk"
    /\ WalkDirs \subseteq visited
    /\ fs_pc' = "returned"
    /\ UNCHANGED <<gVars, rootExists, present, n_items, i, visited, dirpath,
                   filenames, fsdir_collection, counted>>

\* to_graph, lines 190-195: called with the default n_items, writes the
\* returned graph to <subject>_<project>.provn
FsWrite ==
    /\ fs_pc = "returned"
    /\ n_items = DefaultNItems
    /\ fs_pc' = "written"
    /\ UNCHANGED <<gVars, rootExists, present, n_items, i, visited, dirpath,
                   filenames, fsdir_collection, counted>>

\* no directory job is running
FsIdle ==
    /\ fs_pc = "idle"
    /\ rootExists = FALSE
    /\ present = {}
    /\ n_items = 0
    /\ i = 0
    /\ visited = {}
    /\ dirpath = <<>>
    /\ filenames = <<>>
    /\ fsdir_collection = NiiriId(0)
    /\ counted = <<>>

---------------------------------------------------------------------------
\* hash_infile, statement by statement (fs_upload_to_triplesore.py lines
\* 17-30; the notebook's version differs only in the fixed md5).  afile is
\* the path's state: isfile is os.path.isfile(afile), readable whether
\* file(afile, 'rb') succeeds, faulty whether a read of it can fail with
\* IOError, content its bytes.

\* the explicit no-digest value and a digest string
None == [none |-> TRUE, text |-> <<>>]
Hex(text) == [none |-> FALSE, text |-> text]

Paths ==
    [isfile : BOOLEAN, readable : BOOLEAN, faulty : BOOLEAN,
     content : UNION {[1..n -> {"a", "b"}] : n \in 0..MaxBytes}]

\* a guard that lets every path through
IsFileAlways(a) == TRUE

\* line 20: os.path.isfile(afile)
IsFile(a) == a.isfile

\* fp.read(chunk_len) at offset pos: at most n bytes, fewer only at the end
Read(content, pos, n) ==
    SubSeq(content, pos + 1,
           IF pos + n <= Len(content) THEN pos + n ELSE Len(content))

\* a loop that ends on the first chunk shorter than chunk_len
LoopEndsOnShortRead(chunk, n) == Len(chunk) < n

\* line 25: if not data: break
LoopEnds(chunk, n) == chunk = <<>>

HashInit ==
    /\ h_pc = "start"
    /\ afile \in Paths
    /\ crypto \in { <<"m", "d", "5">>, <<"s", "h", "a", "5", "1", "2">> }
    /\ chunk_len \in 1..MaxChunk
    /\ fp = 0
    /\ crypto_obj = <<>>
    /\ hex = None
    /\ open_files = 0
    /\ opens = 0

HashIdle ==
    /\ h_pc = "idle"
    /\ afile = [isfile |-> FALSE, readable |-> FALSE, faulty |-> FALSE,
                content |-> <<>>]
    /\ crypto = <<"m", "d", "5">>
    /\ chunk_len = 1
    /\ fp = 0
    /\ crypto_obj = <<>>
    /\ hex = None
    /\ open_files = 0
    /\ opens = 0

\* lines 19-22: hex = None; the isfile test; crypto(); file(afile, 'rb'),
\* which raises IOError when the file cannot be opened
HashOpen ==
    /\ h_pc = "start"
    /\ hex' = None
    /\ crypto_obj' = <<>>
    /\ IF ~IsFile(afile)
       THEN /\ h_pc' = "return"
            /\ UNCHANGED <<fp, open_files, opens>>
       ELSE IF ~afile.readable
       THEN /\ h_pc' = "raised"
            /\ UNCHANGED <<fp, open_files, opens>>
       ELSE /\ h_pc' = "read"
            /\ fp' = 0
            /\ open_files' = open_files + 1
            /\ opens' = opens + 1
    /\ UNCHANGED <<afile, crypto, chunk_len>>

\* lines 23-27: one iteration of while True; the exception of a failing
\* read leaves the function at once
HashRead ==
    /\ h_pc = "read"
    /\ \/ /\ afile.faulty
          /\ h_pc' = "raised"
          /\ UNCHANGED <<fp, crypto_obj>>
       \/ LET chunk == Read(afile.content, fp, chunk_len)
          IN /\ fp' = fp + Len(chunk)
             /\ IF LoopEnds(chunk, chunk_len)
                THEN /\ h_pc' = "close"
                     /\ UNCHANGED crypto_obj
                ELSE /\ crypto_obj' = crypto_obj \o chunk
                     /\ UNCHANGED h_pc
    /\ UNCHANGED <<afile, crypto, chunk_len, hex, open_files, opens>>

\* lines 28-29: fp.close(); hex = crypto_obj.hexdigest()
HashClose ==
    /\ h_pc = "close"
    /\ open_files' = open_files - 1
    /\ hex' = Hex(hexdigest(crypto, crypto_obj))
    /\ h_pc' = "return"
    /\ UNCHANGED <<afile, crypto, chunk_len, fp, crypto_obj, opens>>

\* line 30: return hex
HashReturn ==
    /\ h_pc = "return"
    /\ h_pc' = "returned"
    /\ UNCHANGED <<afile, crypto, chunk_len, fp, crypto_obj, hex, open_files,
                   opens>>

---------------------------------------------------------------------------
\* The notebook (unnamed/part_000): create_entity and encode_fs_directory
\* with identifiers derived from content, run twice, each time on a fresh
\* bundle, over the same unchanged directory with the same arguments.

nb_fs_file_map == <<
    [key |-> <<"T", "1">>, uris |-> <<QN("nif", "nlx_inv_20090243")>>],
    [key |-> <<"l", "h">>, uris |-> <<QN("obo", "UBERON_0002812")>>],
    [key |-> <<"r", "h">>, uris |-> <<QN("obo", "UBERON_0002813")>>],
    [key |-> <<"B", "A", ".">>, uris |-> <<QN("obo", "UBERON_0013529")>>],
    [key |-> <<"B", "A", "1", ".">>, uris |-> <<QN("obo", "UBERON_0006099")>>],
    [key |-> <<"B", "A", "2", ".">>, uris |-> <<QN("obo", "UBERON_0013533")>>],
    [key |-> <<"B", "A", "3", "a", ".">>, uris |-> <<QN("obo", "UBERON_0006100"), QN("obo", "FMA_74532")>>],
    [key |-> <<"B", "A", "3", "b", ".">>, uris |-> <<QN("obo", "UBERON_0006100"), QN("obo", "FMA_74533")>>],
    [key |-> <<"B", "A", "4", "4", ".">>, uris |-> <<QN("obo", "UBERON_0006481")>>],
    [key |-> <<"B", "A", "4", "5", ".">>, uris |-> <<QN("obo", "UBERON_0006482")>>],
    [key |-> <<"B", "A", "4", "a", ".">>, uris |-> <<QN("obo", "UBERON_0013535"), QN("obo", "FMA_74532")>>],
    [key |-> <<"B", "A", "4", "a", ".">>, uris |-> <<QN("obo", "UBERON_0013535"), QN("obo", "FMA_74533")>>],
    [key |-> <<"B", "A", "6", ".">>, uris |-> <<QN("obo", "UBERON_0006472")>>],
    [key |-> <<"V", "1", ".">>, uris |-> <<QN("obo", "UBERON_0002436")>>],
    [key |-> <<"V", "2", ".">>, uris |-> <<QN("obo", "UBERON_0006473")>>],
    [key |-> <<"M", "T">>, uris |-> <<QN("fs", "MT_area")>>],
    [key |-> <<"e", "n", "t", "o", "r", "h", "i", "n", "a", "l">>, uris |-> <<QN("obo", "UBERON_0002728")>>],
    [key |-> <<"e", "x", "v", "i", "v", "o">>, uris |-> <<QN("fs", "exvivo")>>],
    [key |-> <<"l", "a", "b", "e", "l">>, uris |-> <<QN("fs", "label_file")>>],
    [key |-> <<"a", "n", "n", "o", "t">>, uris |-> <<QN("fs", "annotation_file")>>],
    [key |-> <<"c", "o", "r", "t", "e", "x">>, uris |-> <<QN("obo", "UBERON_0000956")>>],
    [key |-> <<".", "s", "t", "a", "t", "s">>, uris |-> <<QN("fs", "statistic_file")>>],
    [key |-> <<"a", "p", "a", "r", "c", ".", "a", "n", "n", "o", "t">>, uris |-> <<QN("fs", "default_parcellation")>>],
    [key |-> <<"a", "p", "a", "r", "c", ".", "a", "2", "0", "0", "9", "s">>, uris |-> <<QN("fs", "a2009s_parcellation")>>],
    [key |-> <<".", "c", "t", "a", "b">>, uris |-> <<QN("fs", "color_table")>>] >>

nb_ignore_list == << <<"b", "a", "k">>, <<"s", "r", "c">>, <<"t", "m", "p">>, <<"t", "r", "a", "s", "h">> >>

\* fs[local]
FsId(local) == [ns |-> "fs", hex |-> 0, local |-> local]

\* sep.join(segs)
RECURSIVE Join(_, _)
Join(segs, sep) ==
    IF segs = <<>> THEN <<>>
    ELSE IF Len(segs) = 1 THEN segs[1]
    ELSE segs[1] \o sep \o Join(Tail(segs), sep)

\* an identifier that depends on the time of the run as well
Md5WithClock(text) ==
    hexdigest(<<"m", "d", "5">>, text \o (IF run = 1 THEN <<"1">> ELSE <<"2">>))

\* md5.new(text).hexdigest()
Md5New(text) == hexdigest(<<"m", "d", "5">>, text)

NbTypeAttrs(uris) ==
    [k \in 1..Len(uris) |-> Attr(QN("prov", "type"), Uri(uris[k]))]

\* lines 819-823: for key, uris in fs_file_map
RECURSIVE NbMapAttrs(_, _)
NbMapAttrs(k, filename) ==
    IF k > Len(nb_fs_file_map) THEN <<>>
    ELSE (IF Contains(nb_fs_file_map[k].key, filename)
          THEN <<Attr(QN("prov", "label"),
                      Lit(RStrip(nb_fs_file_map[k].key, {"."})))>>
               \o NbTypeAttrs(nb_fs_file_map[k].uris)
          ELSE <<>>)
         \o NbMapAttrs(k + 1, filename)

\* lines 812-823: obj_attr
nb_obj_attr(f) ==
    LET filepath == RealPath(f)
        filename == Basename(filepath)
    IN << Attr(QN("prov", "label"),
               Lit(Join(fstypes(filepath), <<".">>) \o <<":">>
                   \o Join(additional_types(filepath), <<".">>))),
          Attr(QN("prov", "label"), Lit(filename)),
          Attr(QN("fs", "relative_path"), Lit(relpath(filepath))),
          Attr(QN("prov", "location"),
               TypedLit("anyURI", <<"f", "i", "l", "e", ":", "/", "/">> \o hostname \o filepath)),
          Attr(QN("obo", "MS_1000568"), Lit(hash_infile(f, <<"m", "d", "5">>))) >>
       \o NbMapAttrs(1, filename)

\* lines 824-825: the entity under fs['e/' + md5 of subject id, relative
\* path and content md5]
nb_create_entity(f) ==
    Rec("entity",
        FsId(<<"e", "/">> \o Md5New(subject_id \o relpath(RealPath(f))
                               \o hash_infile(f, <<"m", "d", "5">>))),
        nb_obj_attr(f))

RECURSIVE NbIgnoreLoop(_, _, _)
NbIgnoreLoop(k, file2encode, found) ==
    IF k > Len(nb_ignore_list) THEN found
    ELSE NbIgnoreLoop(k + 1, file2encode,
                      IF Contains(nb_ignore_list[k], file2encode) THEN TRUE
                      ELSE found)

\* the orders in which os.walk can list the directories of S
RECURSIVE Orders(_)
Orders(S) ==
    IF S = {} THEN {<<>>}
    ELSE UNION {{<<d>> \o o : o \in Orders(S \ {d})} : d \in S}

NbInit ==
    /\ nb_pc = "start"
    /\ run = 1
    /\ rootExists \in BOOLEAN
    /\ present \in {P \in SUBSET FileIds :
                        /\ Cardinality(P) <= MaxRunFiles
                        /\ ~rootExists => P = {}}
    /\ walk_order \in Orders({Catalog[f].dir : f \in present} \ {<<>>})
    /\ n_items \in (0..MaxItems) \cup {DefaultNItems}
    /\ i = 0
    /\ visited = {}
    /\ dirpath = <<>>
    /\ filenames = <<>>
    /\ fsdir_collection = FsId(<<>>)
    /\ counted = <<>>
    /\ first_rec = <<>>
    /\ first_rel = <<>>
    /\ fs_pc = "idle"

NbIdle ==
    /\ nb_pc = "idle"
    /\ run = 1
    /\ walk_order = <<>>
    /\ first_rec = <<>>
    /\ first_rel = <<>>

\* lines 858-861: the collection under fs[md5 of project id ':' subject id]
NbSetup ==
    /\ nb_pc = "start"
    /\ LET collection_hash == Md5New(project_id \o <<":">> \o subject_id)
       IN /\ fsdir_collection' = FsId(collection_hash)
          /\ g_rec' = Append(g_rec,
                Rec("collection", FsId(collection_hash),
                    << Attr(QN("prov", "type"), Uri(QN("fs", "directory"))),
                       Attr(QN("fs", "subject_id"), Lit(subject_id)) >>))
    /\ i' = 0
    /\ nb_pc' = "walk"
    /\ UNCHANGED <<g_rel, uuid, fs_pc, rootExists, present, n_items, visited,
                   dirpath, filenames, counted, run, walk_order, first_rec,
                   first_rel>>

\* line 863: os.walk yields basedir, then the directories in the order the
\* unchanged directory lists them
NbNextDir ==
    /\ nb_pc = "walk"
    /\ rootExists
    /\ Cardinality(visited) <= Len(walk_order)
    /\ LET d == IF visited = {} THEN <<>>
                ELSE walk_order[Cardinality(visited)]
       IN /\ visited' = visited \cup {d}
          /\ dirpath' = d
          /\ filenames' = Sorted(NamesIn(d))
    /\ nb_pc' = "indir"
    /\ UNCHANGED <<gVars, fs_pc, rootExists, present, n_items, i,
                   fsdir_collection, counted, run, walk_order, first_rec,
                   first_rel>>

\* lines 864-885: one iteration of the loop over sorted(filenames)
NbFile ==
    /\ nb_pc = "indir"
    /\ filenames # <<>>
    /\ LET filename == Head(filenames)
           f == FileAt(dirpath, filename)
           file2encode == RealPath(f)
           entity == nb_create_entity(f)
       IN IF StartsWith(filename, <<".">>)
          THEN /\ filenames' = Tail(filenames)
               /\ UNCHANGED <<gVars, i, nb_pc, counted>>
          ELSE /\ i' = i + 1
               /\ counted' = Append(counted, f)
               /\ IF i + 1 > n_items
                  THEN /\ filenames' = <<>>
                       /\ UNCHANGED <<gVars, nb_pc>>
                  ELSE IF \/ ~Catalog[f].isfile
                          \/ NbIgnoreLoop(1, file2encode, FALSE)
                  THEN /\ filenames' = Tail(filenames)
                       /\ UNCHANGED <<gVars, nb_pc>>
                  ELSE IF CreateEntityRaises(f) = "none"
                  THEN /\ g_rec' = Append(g_rec, entity)
                       /\ g_rel' = Append(g_rel,
                             Rel("hadMember", fsdir_collection, entity.id))
                       /\ filenames' = Tail(filenames)
                       /\ UNCHANGED <<uuid, nb_pc>>
                  ELSE IF CreateEntityRaises(f) = "IOError"
                  THEN /\ filenames' = Tail(filenames)
                       /\ UNCHANGED <<gVars, nb_pc>>
                  ELSE /\ nb_pc' = "raised"
                       /\ UNCHANGED <<gVars, filenames>>
    /\ UNCHANGED <<fs_pc, rootExists, present, n_items, visited, dirpath,
                   fsdir_collection, run, walk_order, first_rec, first_rel>>

\* the loop over this directory's filenames is over
NbDirDone ==
    /\ nb_pc = "indir"
    /\ filenames = <<>>
    /\ nb_pc' = "walk"
    /\ UNCHANGED <<gVars, fsVars, run, walk_order, first_rec, first_rel>>

\* line 886: return g
NbReturn ==
    /\ nb_pc = "walk"
    /\ ~rootExists \/ Cardinality(visited) > Len(walk_order)
    /\ nb_pc' = "returned"
    /\ UNCHANGED <<gVars, fsVars, run, walk_order, first_rec, first_rel>>

\* the second run: a fresh bundle, the same directory and arguments
NbRunAgain ==
    /\ nb_pc = "returned"
    /\ run = 1
    /\ run' = 2
    /\ first_rec' = g_rec
    /\ first_rel' = g_rel
    /\ g_rec' = <<>>
    /\ g_rel' = <<>>
    /\ i' = 0
    /\ visited' = {}
    /\ dirpath' = <<>>
    /\ filenames' = <<>>
    /\ fsdir_collection' = FsId(<<>>)
    /\ counted' = <<>>
    /\ nb_pc' = "start"
    /\ UNCHANGED <<uuid, fs_pc, rootExists, present, n_items, walk_order>>

---------------------------------------------------------------------------
\* query_convert_fs_stats.py: parse_stats.  The measures are what read_stats
\* returned for the report.

Digits == {"0", "1", "2", "3", "4", "5", "6", "7", "8", "9"}
IsDigits(s) == s # <<>> /\ \A k \in 1..Len(s) : s[k] \in Digits

\* whether int(s) / float(s) return (they raise ValueError otherwise)
IntParses(s) == IsDigits(s)
FloatParses(s) ==
    LET parts == Split(s, <<".">>)
    IN \/ IsDigits(s)
       \/ /\ Len(parts) = 2
          /\ parts[1] \o parts[2] # <<>>
          /\ \A k \in 1..2 : parts[k] = <<>> \/ IsDigits(parts[k])

\* str(int(s)) and repr(float(s)) for the s that parse
IntText(s) ==
    LET t == LStrip(s, {"0"}) IN IF t = <<>> THEN <<"0">> ELSE t
FloatText(s) ==
    LET parts == Split(s, <<".">>)
        frac == IF Len(parts) = 2 THEN RStrip(parts[2], {"0"}) ELSE <<>>
    IN (IF parts[1] = <<>> THEN <<"0">> ELSE IntText(parts[1]))
       \o <<".">> \o (IF frac = <<>> THEN <<"0">> ELSE frac)

\* str(n) for a natural number n
RECURSIVE NatText(_)
NatText(n) ==
    LET d == <<"0", "1", "2", "3", "4", "5", "6", "7", "8", "9">>[(n % 10) + 1]
    IN IF n < 10 THEN <<d>> ELSE NatText(n \div 10) \o <<d>>

unknown_units == {"unitless", "NA"}

\* lines 187-190: the value of a header measure
HeaderAsInt(m) == m.units \in unknown_units
\* lines 196-202: the value of a table column
ItemAsInt(it) == it.units \in unknown_units /\ ~Contains(<<".">>, it.value)

ValRaises(asInt, value) ==
    IF asInt THEN ~IntParses(value) ELSE ~FloatParses(value)
ValRef(asInt, value) ==
    IF asInt THEN TypedLit("integer", IntText(value))
    ELSE TypedLit("float", FloatText(value))

Item(name, description, value, units) ==
    [name |-> name, description |-> description, value |-> value,
     units |-> units]
\* read_stats, lines 95-100 and 109-120: a header and a table measure
HeaderMeasure(structure, name, description, value, units) ==
    [structure |-> structure, source |-> "Header", name |-> name,
     description |-> description, value |-> value, units |-> units,
     items |-> <<>>]
TableMeasure(structure, items) ==
    [structure |-> structure, source |-> "Table", name |-> "",
     description |-> "", value |-> <<>>, units |-> "", items |-> items]

MeasurePool == {
    HeaderMeasure("Cortex", "NumVert", "Number of Vertices", <<"1", "2">>, "unitless"),
    HeaderMeasure("Cortex", "MeanThickness", "Mean Thickness", <<"2", ".", "5">>, "mm"),
    HeaderMeasure("BrainSeg", "BrainSegVol", "Brain Segmentation Volume",
                  <<"3", ".", "5", "0">>, "mm^3"),
    HeaderMeasure("BrainSeg", "NumVert", "Number of Vertices", <<"1", ".", "5">>, "unitless"),
    TableMeasure("Cortex",
                 << Item("NVoxels", "Number of Voxels", <<"1", "2">>, "unitless"),
                    Item("Volume_mm3", "Volume", <<"3", ".", "5">>, "mm^3") >>),
    TableMeasure("Cortex",
                 << Item("NVoxels", "Number of Voxels", <<"9">>, "unitless"),
                    Item("normMean", "Intensity normMean", <<"1", ".", "5">>, "NA") >>),
    TableMeasure("Left-Amygdala",
                 << Item("NVoxels", "Number of Voxels", <<"9">>, "unitless"),
                    Item("Volume_mm3", "Volume", <<"2">>, "mm^3") >>) }

\* the source entity the collection is derived from (parameter entity_uri)
entity_uri == [ns |-> "niiri", hex |-> 0, local |-> <<"s", "r", "c">>]

ItemAttrs(items) ==
    [k \in 1..Len(items) |->
        Attr(QN("fs", items[k].name),
             ValRef(ItemAsInt(items[k]), items[k].value))]

\* lines 170-203: obj_attr of one measure
MeasureAttrs(m) ==
    <<Attr(QN("nidm", "AnatomicalAnnotation"), Uri(QN("fs", m.structure)))>>
    \o (IF m.source = "Header"
        THEN <<Attr(QN("fs", m.name), ValRef(HeaderAsInt(m), m.value))>>
        ELSE ItemAttrs(m.items))

MeasureRaises(m) ==
    IF m.source = "Header" THEN ValRaises(HeaderAsInt(m), m.value)
    ELSE \E k \in 1..Len(m.items) :
            ValRaises(ItemAsInt(m.items[k]), m.items[k].value)

\* the measure names of m, in the order the loop meets them
MeasureNames(m) ==
    IF m.source = "Header" THEN <<m.name>>
    ELSE [k \in 1..Len(m.items) |-> m.items[k].name]

\* if measure_name not in measure_list: measure_list.append(measure_name)
RECURSIVE AppendNew(_, _)
AppendNew(list, names) ==
    IF names = <<>> THEN list
    ELSE AppendNew(IF InSeq(Head(names), list) THEN list
                   ELSE Append(list, Head(names)),
                   Tail(names))

\* a lookup that never finds the structure
StructLookupNever(info, uri) == 0

\* line 217: struct_uri in struct_info; the position in g_rec of the entity
\* recorded for uri, 0 when there is none
StructLookup(info, uri) ==
    LET K == {k \in 1..Len(info) : info[k].uri = uri}
    IN IF K = {} THEN 0 ELSE info[CHOOSE k \in K : TRUE].rec

StInit ==
    /\ st_pc = "start"
    /\ measures \in UNION {[1..n -> MeasurePool] : n \in 0..MaxMeasures}
    /\ mpos = 1
    /\ struct_info = <<>>
    /\ measure_list = <<>>
    /\ stat_collection = NiiriId(0)
    /\ statheader_collection = NiiriId(0)

StIdle ==
    /\ st_pc = "idle"
    /\ measures = <<>>
    /\ mpos = 1
    /\ struct_info = <<>>
    /\ measure_list = <<>>
    /\ stat_collection = NiiriId(0)
    /\ statheader_collection = NiiriId(0)

\* lines 135-168: activity, agent, stats collection, header entity
StSetup ==
    /\ st_pc = "start"
    /\ g_rec' = g_rec \o <<
          Rec("activity", NiiriId(uuid + 1), <<>>),
          Rec("agent", NiiriId(uuid + 2),
              << Attr(QN("prov", "type"), Uri(QN("prov", "Person"))) >>),
          Rec("collection", NiiriId(uuid + 3),
              << Attr(QN("prov", "type"),
                      Uri(QN("nidm", "FreeSurferStatsCollection"))) >>),
          Rec("entity", NiiriId(uuid + 4),
              << Attr(QN("prov", "type"), Uri(QN("fs", "stat_header"))) >>) >>
    /\ g_rel' = Append(g_rel,
          Rel("wasAssociatedWith", NiiriId(uuid + 1), NiiriId(uuid + 2)))
    /\ uuid' = uuid + 4
    /\ stat_collection' = NiiriId(uuid + 3)
    /\ statheader_collection' = NiiriId(uuid + 4)
    /\ st_pc' = "loop"
    /\ UNCHANGED <<measures, mpos, struct_info, measure_list>>

\* lines 169-223: one iteration of the loop over measures
StMeasure ==
    /\ st_pc = "loop"
    /\ mpos <= Len(measures)
    /\ LET measure == measures[mpos]
           struct_uri == QN("fs", measure.structure)
           id == NiiriId(uuid + 1)
           euri == StructLookup(struct_info, struct_uri)
       IN IF MeasureRaises(measure)
          THEN /\ st_pc' = "raised"
               /\ UNCHANGED <<gVars, mpos, struct_info, measure_list>>
          ELSE /\ measure_list' = AppendNew(measure_list, MeasureNames(measure))
               /\ uuid' = uuid + 1
               /\ IF euri # 0
                  THEN /\ g_rec' = AddExtraAttributes(g_rec, euri,
                                                      MeasureAttrs(measure))
                       /\ UNCHANGED struct_info
                  ELSE /\ g_rec' = Append(g_rec,
                             Rec("entity", id, MeasureAttrs(measure)))
                       /\ struct_info' = Append(struct_info,
                             [uri |-> struct_uri, rec |-> Len(g_rec) + 1])
               /\ g_rel' = Append(g_rel, Rel("hadMember", stat_collection, id))
               /\ mpos' = mpos + 1
               /\ UNCHANGED st_pc
    /\ UNCHANGED <<measures, stat_collection, statheader_collection>>

\* lines 224-227
StFinish ==
    /\ st_pc = "loop"
    /\ mpos > Len(measures)
    /\ g_rel' = g_rel \o <<
          Rel("hadMember", stat_collection, statheader_collection),
          Derivation(stat_collection, entity_uri),
          Rel("wasGeneratedBy", stat_collection, g_rec[1].id) >>
    /\ st_pc' = "returned"
    /\ UNCHANGED <<g_rec, uuid, measures, mpos, struct_info, measure_list,
                   stat_collection, statheader_collection>>

---------------------------------------------------------------------------
\* scripts/csv2prov.py: csv2provgraph.

\* n_rows=None
NoRowLimit == -1

csv_filename == <<"f", ".", "c", "s", "v">>

\* pd.read_csv(filename, na_values=["N/A", "pending", -999]): the cell
\* texts read as NaN (the empty cell is one of pandas' own)
na_values == { <<"N", "/", "A">>, <<"p", "e", "n", "d", "i", "n", "g">>, <<"-", "9", "9", "9">>, <<>> }

Cell(kind, text) == [kind |-> kind, text |-> text]
\* the value pandas gives a cell text
ReadCell(raw) ==
    IF raw \in na_values THEN Cell("nan", <<>>)
    ELSE IF IntParses(raw) THEN Cell("int", raw)
    ELSE IF FloatParses(raw) THEN Cell("float", raw)
    ELSE Cell("str", raw)

\* the headers and the rows the tables are made of
HeaderPool == {
    << <<"a">> >>,
    << <<"a">>, <<"b">> >>,
    << <<"a", " ", "b">>, <<"a", "_", "b">> >>,
    << <<"a", "/", "b">>, <<"c">> >>,
    << <<"a">>, <<"a", " ">> >>,
    << <<"a", " ", "b">>, <<"a", "/", "b">> >> }

RowPool == {
    << <<"3">>, <<"2", ".", "5">> >>,
    << <<"3">>, <<"N", "/", "A">> >>,
    << <<"p", "e", "n", "d", "i", "n", "g">>, <<"-", "9", "9", "9">> >>,
    << <<>>, <<"3">> >>,
    << <<"x">>, <<"3">> >>,
    << <<"2", ".", "5">>, <<"x">> >> }

\* safe_encode
safe_encode(x) ==
    IF x.kind = "str" THEN TypedLit("string", x.text)
    ELSE IF x.kind = "int" THEN TypedLit("integer", IntText(x.text))
    ELSE IF x.kind = "float" THEN TypedLit("float", FloatText(x.text))
    ELSE TypedLit("string", <<"U", "n", "k", "n", "o", "w", "n">>)

\* line 95: column.rstrip().replace(' ', '_').replace('/', '_')
ColumnLocal(column) ==
    Replace(Replace(RStrip(column, {" "}), " ", "_"), "/", "_")

\* d[k] = v on a dict kept as a sequence of items
DictSet(d, k, v) ==
    IF \E j \in 1..Len(d) : d[j].key = k
    THEN [j \in 1..Len(d) |-> IF d[j].key = k THEN Attr(k, v) ELSE d[j]]
    ELSE Append(d, Attr(k, v))

\* column_uri[column]
ColumnUri(map, column) ==
    map[CHOOSE j \in 1..Len(map) : map[j].column = column].uri

\* np.isnan(x): "yes", "no", or for a str what the numpy at hand does:
\* "TypeError" (raised) or "NotImplemented" (returned, and truthy)
IsNan(x, ofStr) ==
    IF x.kind = "nan" THEN "yes" ELSE IF x.kind = "str" THEN ofStr ELSE "no"

\* lines 113-115: the attr dict after the columns k.. of the row
RECURSIVE RowAttrs(_, _, _, _, _)
RowAttrs(attr, k, cols, row, map) ==
    IF k > Len(cols) THEN attr
    ELSE RowAttrs(IF IsNan(ReadCell(row[k]), isnan_of_str) = "no"
                  THEN DictSet(attr, ColumnUri(map, cols[k]),
                               safe_encode(ReadCell(row[k])))
                  ELSE attr,
                  k + 1, cols, row, map)

RowRaises(cols, row) ==
    \E k \in 1..Len(cols) :
        IsNan(ReadCell(row[k]), isnan_of_str) = "TypeError"

\* line 104: if n_rows and row_count >= n_rows: break
RowLimitReached(limit, count) ==
    limit # NoRowLimit /\ limit # 0 /\ count >= limit

CsvInit ==
    /\ csv_pc = "start"
    /\ isnan_of_str \in {"TypeError", "NotImplemented"}
    /\ columns \in HeaderPool
    /\ data \in UNION {[1..n -> {SubSeq(r, 1, Len(columns)) : r \in RowPool}] :
                            n \in 0..MaxCsvRows}
    /\ n_rows \in {NoRowLimit} \cup 0..MaxCsvRows
    /\ row_count = 0
    /\ col_id = 0
    /\ rpos = 1
    /\ column_uri = <<>>
    /\ csv_id = 0
    /\ column_collection = NiiriId(0)

CsvIdle ==
    /\ csv_pc = "idle"
    /\ isnan_of_str = "TypeError"
    /\ columns = <<>>
    /\ data = <<>>
    /\ n_rows = NoRowLimit
    /\ row_count = 0
    /\ col_id = 0
    /\ rpos = 1
    /\ column_uri = <<>>
    /\ csv_id = 0
    /\ column_collection = NiiriId(0)

\* lines 55-93: url entity, csv collection, activity, agent, the table read,
\* the column-header collection
CsvSetup ==
    /\ csv_pc = "start"
    /\ csv_id' = uuid + 2
    /\ column_collection' = NiiriId(uuid + 5)
    /\ g_rec' = g_rec \o <<
          Rec("entity", NiiriId(uuid + 1),
              << Attr(QN("prov", "type"), Uri(QN("nidm", "csv_file"))),
                 Attr(QN("prov", "location"), TypedLit("AnyURI", csv_filename)) >>),
          Rec("collection", NiiriId(uuid + 2),
              << Attr(QN("prov", "type"), Uri(QN("nidm", "csv_collection"))),
                 Attr(QN("prov", "label"), Lit(csv_filename)) >>),
          Rec("activity", NiiriId(uuid + 3), <<>>),
          Rec("agent", NiiriId(uuid + 4),
              << Attr(QN("prov", "type"), Uri(QN("prov", "Person"))) >>),
          Rec("collection", NiiriId(uuid + 5),
              << Attr(QN("prov", "type"), Uri(QN("nidm", "column_headers"))) >>) >>
    /\ g_rel' = g_rel \o <<
          Derivation(NiiriId(uuid + 2), NiiriId(uuid + 1)),
          Rel("wasAssociatedWith", NiiriId(uuid + 3), NiiriId(uuid + 4)),
          Rel("wasGeneratedBy", NiiriId(uuid + 2), NiiriId(uuid + 3)),
          Rel("hadMember", NiiriId(uuid + 2), NiiriId(uuid + 5)) >>
    /\ uuid' = uuid + 5
    /\ csv_pc' = "columns"
    /\ UNCHANGED <<isnan_of_str, columns, data, n_rows, row_count, col_id,
                   rpos, column_uri>>

\* lines 94-100: one column of enumerate(columns)
CsvColumn ==
    /\ csv_pc = "columns"
    /\ col_id < Len(columns)
    /\ LET column == columns[col_id + 1]
           uri == NiiriLocal(csv_id, ColumnLocal(column))
       IN /\ column_uri' = Append(column_uri, [column |-> column, uri |-> uri])
          /\ g_rec' = Append(g_rec,
                Rec("entity", uri,
                    << Attr(QN("prov", "type"), Uri(QN("nidm", "csv_heading"))),
                       Attr(QN("prov", "label"), safe_encode(Cell("str", column))),
                       Attr(QN("prov", "location"),
                            TypedLit("integer", NatText(col_id))) >>))
          /\ g_rel' = Append(g_rel, Rel("hadMember", column_collection, uri))
    /\ col_id' = col_id + 1
    /\ UNCHANGED <<uuid, csv_pc, isnan_of_str, columns, data, n_rows,
                   row_count, rpos, csv_id, column_collection>>

\* line 102: the loop over the columns is over
CsvColumnsDone ==
    /\ csv_pc = "columns"
    /\ col_id = Len(columns)
    /\ row_count' = 0
    /\ csv_pc' = "rows"
    /\ UNCHANGED <<gVars, isnan_of_str, columns, data, n_rows, col_id, rpos,
                   column_uri, csv_id, column_collection>>

\* lines 103-116: one row of data.iterrows()
CsvRow ==
    /\ csv_pc = "rows"
    /\ rpos <= Len(data)
    /\ ~RowLimitReached(n_rows, row_count)
    /\ LET row == data[rpos]
           row_id == NiiriId(uuid + 1)
           attr == << Attr(QN("prov", "type"), Uri(QN("nidm", "csv_row"))),
                      Attr(QN("prov", "location"),
                           TypedLit("integer", NatText(row_count + 1))) >>
       IN /\ row_count' = row_count + 1
          /\ uuid' = uuid + 1
          /\ g_rel' = Append(g_rel, Rel("hadMember", NiiriId(csv_id), row_id))
          /\ IF RowRaises(columns, row)
             THEN /\ g_rec' = Append(g_rec, Rec("entity", row_id, <<>>))
                  /\ csv_pc' = "raised"
                  /\ UNCHANGED rpos
             ELSE /\ g_rec' = Append(g_rec,
                        Rec("entity", row_id,
                            RowAttrs(attr, 1, columns, row, column_uri)))
                  /\ rpos' = rpos + 1
                  /\ UNCHANGED csv_pc
    /\ UNCHANGED <<isnan_of_str, columns, data, n_rows, col_id, column_uri,
                   csv_id, column_collection>>

\* line 117: return g
CsvReturn ==
    /\ csv_pc = "rows"
    /\ rpos > Len(data) \/ RowLimitReached(n_rows, row_count)
    /\ csv_pc' = "returned"
    /\ UNCHANGED <<gVars, isnan_of_str, columns, data, n_rows, row_count,
                   col_id, rpos, column_uri, csv_id, column_collection>>

---------------------------------------------------------------------------
\* upload_graph (the same text in fs_upload_to_triplesore.py,
\* query_convert_fs_stats.py and scripts/csv2prov.py).  The statements are
\* the lines of the serialized graph, numbered in their order.

max_stmts == 1000

Min(a, b) == IF a <= b THEN a ELSE b

\* a slice that leaves out its first statement
BatchSkipsFirst(lines, from, to) == SubSeq(lines, from + 2, to)

\* stmts[counter:endcounter]
Batch(lines, from, to) == SubSeq(lines, from + 1, to)

\* the answers of the endpoint
Responses == {200, 500}

\* a counter that moves on only after a successful request
AdvanceOnSuccess(from, to, response) == IF response = 200 THEN to ELSE from

\* line 224: counter = endcounter, whatever the response was
Advance(from, to, response) == to

UpInit ==
    /\ up_pc = "start"
    /\ stmts \in {[k \in 1..n |-> k] : n \in 0..MaxStmts}
    /\ counter = 0
    /\ posted = <<>>
    /\ result = <<>>

UpIdle ==
    /\ up_pc = "idle"
    /\ stmts = <<>>
    /\ counter = 0
    /\ posted = <<>>
    /\ result = <<>>

\* lines 209-212
UpStart ==
    /\ up_pc = "start"
    /\ counter' = 0
    /\ up_pc' = "loop"
    /\ UNCHANGED <<stmts, posted, result>>

\* lines 213-224: one iteration of while (counter < N)
UpPost ==
    /\ up_pc = "loop"
    /\ counter < Len(stmts)
    /\ LET endcounter == Min(Len(stmts), counter + max_stmts)
       IN /\ posted' = Append(posted, Batch(stmts, counter, endcounter))
          /\ \E r \in Responses :
                /\ result' = Append(result, r)
                /\ counter' = Advance(counter, endcounter, r)
    /\ UNCHANGED <<up_pc, stmts>>

\* line 225
UpDone ==
    /\ up_pc = "loop"
    /\ ~(counter < Len(stmts))
    /\ up_pc' = "done"
    /\ UNCHANGED <<stmts, counter, posted, result>>

---------------------------------------------------------------------------
\* query_convert_fs_stats.py: job and process_collection.

\* the md5 of a query row (an rdflib Literal) and of the JSON answer of the
\* retrieval service (a unicode string)
Md5Texts == {"m1", "m2", "None"}
QueryLiteral(text) == [kind |-> "Literal", text |-> text]
JsonString(text) == [kind |-> "unicode", text |-> text]
\* str(x)
StrOf(x) == x.text

\* a comparison that always succeeds
Md5MatchesAlways(md5sum, answer) == TRUE

\* line 232: str(md5sum) == str(r['md5sum'])
Md5Matches(md5sum, answer) == StrOf(md5sum) = StrOf(answer)

JobInit ==
    /\ job_pc = "next"
    /\ results \in UNION {[1..n -> {QueryLiteral(t) : t \in Md5Texts}] :
                               n \in 0..MaxJobRows}
    /\ rowpos = 1
    /\ answers = <<>>
    /\ fetched = {}
    /\ parsed = {}
    /\ returned = <<>>
    /\ uploaded = <<>>

JobIdle ==
    /\ job_pc = "idle"
    /\ results = <<>>
    /\ rowpos = 1
    /\ answers = <<>>
    /\ fetched = {}
    /\ parsed = {}
    /\ returned = <<>>
    /\ uploaded = <<>>

\* lines 272-273 and 230-231: the next row; r = requests.get(urlget).json()
JobGet ==
    /\ job_pc = "next"
    /\ rowpos <= Len(results)
    /\ \E t \in Md5Texts : answers' = Append(answers, JsonString(t))
    /\ job_pc' = "answered"
    /\ UNCHANGED <<results, rowpos, fetched, parsed, returned, uploaded>>

\* lines 232-234: the comparison, then mktemp and urlretrieve
JobFetch ==
    /\ job_pc = "answered"
    /\ Md5Matches(results[rowpos], answers[rowpos])
    /\ fetched' = fetched \cup {rowpos}
    /\ job_pc' = "fetched"
    /\ UNCHANGED <<results, rowpos, answers, parsed, returned, uploaded>>

\* lines 235-237: parse_stats, unlink, return the two graphs
JobParse ==
    /\ job_pc = "fetched"
    /\ parsed' = parsed \cup {rowpos}
    /\ returned' = Append(returned, "graphs")
    /\ job_pc' = "unpack"
    /\ UNCHANGED <<results, rowpos, answers, fetched, uploaded>>

\* lines 232 and 238: the digests differ, return None
JobReturnNone ==
    /\ job_pc = "answered"
    /\ ~Md5Matches(results[rowpos], answers[rowpos])
    /\ returned' = Append(returned, "None")
    /\ job_pc' = "unpack"
    /\ UNCHANGED <<results, rowpos, answers, fetched, parsed, uploaded>>

\* lines 273-276: g, _ = job(row) and upload_graph(g); unpacking None
\* raises TypeError
JobUnpack ==
    /\ job_pc = "unpack"
    /\ IF returned[rowpos] = "None"
       THEN /\ job_pc' = "raised"
            /\ UNCHANGED <<rowpos, uploaded>>
       ELSE /\ uploaded' = Append(uploaded, rowpos)
            /\ rowpos' = rowpos + 1
            /\ job_pc' = "next"
    /\ UNCHANGED <<results, answers, fetched, parsed, returned>>

\* line 272: the result set is exhausted
JobDone ==
    /\ job_pc = "next"
    /\ rowpos > Len(results)
    /\ job_pc' = "done"
    /\ UNCHANGED <<results, rowpos, answers, fetched, parsed, returned,
                   uploaded>>

---------------------------------------------------------------------------
\* query_convert_fs_stats.py: read_stats.  A line is its characters with
\* the newline; the report is made of a preamble, the TableCol declarations
\* of its columns and its data rows.

Whitespace == {" ", "\n"}

\* line.split()
RECURSIVE SplitWs(_)
SplitWs(s) ==
    LET t == LStrip(s, Whitespace)
        W == {k \in 1..Len(t) : t[k] \in Whitespace}
        n == IF W = {} THEN Len(t) + 1
             ELSE CHOOSE k \in W : \A j \in W : k <= j
    IN IF t = <<>> THEN <<>>
       ELSE <<SubSeq(t, 1, n - 1)>> \o SplitWs(SubSeq(t, n, Len(t)))

\* int(s) for a string of digits
RECURSIVE ToInt(_)
ToInt(s) ==
    LET d == CHOOSE v \in 0..9 : NatText(v) = <<Last(s)>>
    IN IF Len(s) = 1 THEN d ELSE 10 * ToInt(ButLast(s)) + d

\* seq[k] with Python's negative indices
PyIndex(seq, k) == IF k >= 0 THEN seq[k + 1] ELSE seq[Len(seq) + k + 1]
PyIndexValid(seq, k) == -Len(seq) <= k /\ k < Len(seq)

\* the columns a report can declare, by position, and the structure column
ColumnPool == <<
    [colheader |-> <<"I", "n", "d", "e", "x">>, fieldname |-> <<"I", "n", "d", "e", "x">>, units |-> <<"N", "A">>],
    [colheader |-> <<"N", "V", "o", "x", "e", "l", "s">>, fieldname |-> <<"N", "u", "m", "b", "e", "r", " ", "o", "f", " ", "V", "o", "x", "e", "l", "s">>,
     units |-> <<"u", "n", "i", "t", "l", "e", "s", "s">>],
    [colheader |-> <<"V", "o", "l", "u", "m", "e", "_", "m", "m", "3">>, fieldname |-> <<"V", "o", "l", "u", "m", "e">>, units |-> <<"m", "m", "^", "3">>],
    [colheader |-> <<"n", "o", "r", "m", "M", "e", "a", "n">>, fieldname |-> <<"I", "n", "t", "e", "n", "s", "i", "t", "y", " ", "n", "o", "r", "m", "M", "e", "a", "n">>,
     units |-> <<"M", "R">>],
    [colheader |-> <<"n", "o", "r", "m", "M", "a", "x">>, fieldname |-> <<"I", "n", "t", "e", "n", "s", "i", "t", "y", " ", "n", "o", "r", "m", "M", "a", "x">>,
     units |-> <<"M", "R">>] >>
StructColumn ==
    [colheader |-> <<"S", "t", "r", "u", "c", "t", "N", "a", "m", "e">>, fieldname |-> <<"S", "t", "r", "u", "c", "t", "u", "r", "e", " ", "N", "a", "m", "e">>,
     units |-> <<"N", "A">>]
StructNames == { <<"C", "o", "r", "t", "e", "x">>, <<"L", "e", "f", "t", "-", "A", "m", "y", "g", "d", "a", "l", "a">> }

ColumnAt(r, c) == IF c = r.s THEN StructColumn ELSE ColumnPool[c]

TableColLine(c, field, text) ==
    <<"#", " ", "T", "a", "b", "l", "e", "C", "o", "l", " ", " ">> \o NatText(c) \o <<" ">> \o field \o <<" ">> \o text
    \o <<"\n">>
RECURSIVE DeclLines(_, _)
DeclLines(r, c) ==
    IF c > r.n THEN <<>>
    ELSE << TableColLine(c, <<"C", "o", "l", "H", "e", "a", "d", "e", "r">>, ColumnAt(r, c).colheader),
            TableColLine(c, <<"F", "i", "e", "l", "d", "N", "a", "m", "e">>, ColumnAt(r, c).fieldname),
            TableColLine(c, <<"U", "n", "i", "t", "s">>, ColumnAt(r, c).units) >>
         \o DeclLines(r, c + 1)

\* the k-th data row: the structure name in column s, c.5 in column c
RowTokens(r, k) ==
    [c \in 1..r.n |-> IF c = r.s THEN r.structs[k]
                      ELSE NatText(c) \o <<".", "5">>]
RowLine(tokens) == Join(tokens, <<" ">>) \o <<"\n">>

Preamble == <<
    <<"#", " ", "T", "i", "t", "l", "e", " ", "S", "e", "g", "m", "e", "n", "t", "a", "t", "i", "o", "n", " ", "S", "t", "a", "t", "i", "s", "t", "i", "c", "s">> \o <<"\n">>,
    <<"#", "\n">>,
    <<"\n">>,
    <<"#", " ", "M", "e", "a", "s", "u", "r", "e", " ", "C", "o", "r", "t", "e", "x", ",", " ", "N", "u", "m", "V", "e", "r", "t", ",", " ", "N", "u", "m", "b", "e", "r", " ", "o", "f", " ", "V", "e", "r", "t", "i", "c", "e", "s", ",", " ", "1", "2", ",", " ", "u", "n", "i", "t", "l", "e", "s", "s">> \o <<"\n">>,
    <<"#", " ", "C", "o", "l", "H", "e", "a", "d", "e", "r", "s", " ", "I", "n", "d", "e", "x", " ", "S", "t", "r", "u", "c", "t", "N", "a", "m", "e">> \o <<"\n">> >>

\* fp.readlines(): the first data row comes after rowStart declaration
\* lines, the others after the declarations
ReportLines(r) ==
    LET decl == DeclLines(r, 1)
        rows == [k \in 1..Len(r.structs) |-> RowLine(RowTokens(r, k))]
    IN (IF r.preamble THEN Preamble ELSE <<>>)
       \o (IF rows = <<>> THEN decl
           ELSE SubSeq(decl, 1, r.rowStart) \o <<rows[1]>>
                \o SubSeq(decl, r.rowStart + 1, Len(decl)) \o Tail(rows))

Reports ==
    {r \in [n : 2..MaxCols, s : 1..MaxCols,
            structs : UNION {[1..k -> StructNames] : k \in 0..MaxRows},
            rowStart : 0..(3 * MaxCols), preamble : BOOLEAN] :
        /\ r.s <= r.n
        /\ r.rowStart <= 3 * r.n
        /\ r.structs = <<>> => r.rowStart = 3 * r.n}

\* tableinfo[col][field] = text, on a dict of dicts kept as a set of entries
TablePut(info, col, field, text) ==
    {x \in info : ~(x.col = col /\ x.field = field)}
    \cup {[col |-> col, field |-> field, text |-> text]}
TableHas(info, col, field) ==
    \E x \in info : x.col = col /\ x.field = field
TableGet(info, col, field) ==
    (CHOOSE x \in info : x.col = col /\ x.field = field).text

\* struct_idx is assigned by no statement before the loop
Unbound == -1

\* a variable preset to zero
PresetToZero == 1 - 1

\* the value of struct_idx where the loop starts
StructIdxAtEntry == Unbound

\* a skip of the column after the structure column
SkipsNextColumn(idx, sidx) == idx = sidx

\* line 113: if idx + 1 == struct_idx: continue
SkipsColumn(idx, sidx) == idx + 1 = sidx

\* the exception lines 109-120 raise for a row, "none" when they do not
RowError(tokens, sidx, info) ==
    IF sidx = Unbound THEN "UnboundLocalError"
    ELSE IF ~PyIndexValid(tokens, sidx - 1) THEN "IndexError"
    ELSE IF \E idx \in 0..(Len(tokens) - 1) :
               /\ ~SkipsColumn(idx, sidx)
               /\ \/ ~TableHas(info, idx + 1, <<"C", "o", "l", "H", "e", "a", "d", "e", "r">>)
                  \/ ~TableHas(info, idx + 1, <<"F", "i", "e", "l", "d", "N", "a", "m", "e">>)
                  \/ ~TableHas(info, idx + 1, <<"U", "n", "i", "t", "s">>)
    THEN "KeyError"
    ELSE "none"

\* lines 112-120: the items of a row
RowItems(tokens, sidx, info) ==
    LET idxs == SelectSeq([k \in 1..Len(tokens) |-> k - 1],
                          LAMBDA idx : ~SkipsColumn(idx, sidx))
    IN [j \in 1..Len(idxs) |->
           Item(TableGet(info, idxs[j] + 1, <<"C", "o", "l", "H", "e", "a", "d", "e", "r">>),
                TableGet(info, idxs[j] + 1, <<"F", "i", "e", "l", "d", "N", "a", "m", "e">>),
                tokens[idxs[j] + 1],
                TableGet(info, idxs[j] + 1, <<"U", "n", "i", "t", "s">>))]

\* lines 71-76: the locals, and the lines read
RsInit ==
    /\ rs_pc = "loop"
    /\ rs_error = "none"
    /\ report \in Reports
    /\ lpos = 1
    /\ header = <<>>
    /\ tableinfo = {}
    /\ rs_measures = <<>>
    /\ struct_idx = StructIdxAtEntry

RsIdle ==
    /\ rs_pc = "idle"
    /\ rs_error = "none"
    /\ report = [n |-> 2, s |-> 1, structs |-> <<>>, rowStart |-> 6,
                 preamble |-> FALSE]
    /\ lpos = 1
    /\ header = <<>>
    /\ tableinfo = {}
    /\ rs_measures = <<>>
    /\ struct_idx = Unbound

\* lines 77-120: one iteration of for line in lines; an exception leaves
\* the function, and its locals, at once
RsLine ==
    /\ rs_pc = "loop"
    /\ lpos <= Len(ReportLines(report))
    /\ LET line == ReportLines(report)[lpos]
           fields == Tail(SplitWs(line))
           parts == Split(Join(Tail(fields), <<" ">>), <<",", " ">>)
           tokens == SplitWs(line)
       IN IF Len(line) = 1
          THEN /\ lpos' = lpos + 1
               /\ UNCHANGED <<rs_pc, rs_error, header, tableinfo, rs_measures,
                              struct_idx>>
          ELSE IF StartsWith(line, <<"#">>)
          THEN IF Len(fields) < 2
               THEN /\ lpos' = lpos + 1
                    /\ UNCHANGED <<rs_pc, rs_error, header, tableinfo,
                                   rs_measures, struct_idx>>
               ELSE IF fields[1] = <<"T", "a", "b", "l", "e", "C", "o", "l">>
               THEN /\ tableinfo' =
                          TablePut(tableinfo, ToInt(fields[2]), fields[3],
                                   Join(SubSeq(fields, 4, Len(fields)), <<" ">>))
                    /\ struct_idx' =
                          IF Join(SubSeq(fields, 4, Len(fields)), <<" ">>)
                                = <<"S", "t", "r", "u", "c", "t", "N", "a", "m", "e">>
                          THEN ToInt(fields[2]) ELSE struct_idx
                    /\ lpos' = lpos + 1
                    /\ UNCHANGED <<rs_pc, rs_error, header, rs_measures>>
               ELSE IF fields[1] = <<"M", "e", "a", "s", "u", "r", "e">>
               THEN IF Len(parts) < 5
                    THEN /\ rs_pc' = "raised"
                         /\ rs_error' = "IndexError"
                         /\ UNCHANGED <<lpos, header, tableinfo, rs_measures,
                                        struct_idx>>
                    ELSE /\ rs_measures' =
                               Append(rs_measures,
                                      HeaderMeasure(parts[1], parts[2],
                                                    parts[3], parts[4],
                                                    parts[5]))
                         /\ lpos' = lpos + 1
                         /\ UNCHANGED <<rs_pc, rs_error, header, tableinfo,
                                        struct_idx>>
               ELSE IF fields[1] = <<"C", "o", "l", "H", "e", "a", "d", "e", "r", "s">>
               THEN /\ lpos' = lpos + 1
                    /\ UNCHANGED <<rs_pc, rs_error, header, tableinfo,
                                   rs_measures, struct_idx>>
               ELSE /\ header' = DictSet(header, fields[1],
                                         Join(Tail(fields), <<" ">>))
                    /\ lpos' = lpos + 1
                    /\ UNCHANGED <<rs_pc, rs_error, tableinfo, rs_measures,
                                   struct_idx>>
          ELSE IF RowError(tokens, struct_idx, tableinfo) # "none"
          THEN /\ rs_pc' = "raised"
               /\ rs_error' = RowError(tokens, struct_idx, tableinfo)
               /\ UNCHANGED <<lpos, header, tableinfo, rs_measures,
                              struct_idx>>
          ELSE /\ rs_measures' =
                     Append(rs_measures,
                            TableMeasure(PyIndex(tokens, struct_idx - 1),
                                         RowItems(tokens, struct_idx,
                                                  tableinfo)))
               /\ lpos' = lpos + 1
               /\ UNCHANGED <<rs_pc, rs_error, header, tableinfo, struct_idx>>
    /\ UNCHANGED report

\* line 121: return header, tableinfo, measures
RsReturn ==
    /\ rs_pc = "loop"
    /\ lpos > Len(ReportLines(report))
    /\ rs_pc' = "returned"
    /\ UNCHANGED <<rs_error, report, lpos, header, tableinfo, rs_measures,
                   struct_idx>>

---------------------------------------------------------------------------
\* scripts/serve_files.py: FileServer.file, served by the request threads of
\* the server's thread pool.

Threads == {1, 2}

\* the server's file system, by resolved path
ServerFiles == {
    [path |-> <<"/", "m", "i", "n", "d", "h", "i", "v", "e", "/", "x", "n", "a", "t", "/", "s", "u", "r", "f", "a", "c", "e", "s", "/", "a", "d", "h", "d", "2", "0", "0", "/", "s", "1", "/", "l", "h", ".", "p", "i", "a", "l">>,
     isfile |-> TRUE, content |-> <<"a", "b">>],
    [path |-> <<"/", "m", "i", "n", "d", "h", "i", "v", "e", "/", "x", "n", "a", "t", "/", "s", "u", "r", "f", "a", "c", "e", "s", "/", "a", "d", "h", "d", "2", "0", "0", "/", "s", "1">>,
     isfile |-> FALSE, content |-> <<>>],
    [path |-> <<"/", "m", "i", "n", "d", "h", "i", "v", "e", "/", "x", "n", "a", "t", "/", "s", "u", "r", "f", "a", "c", "e", "s", "/", "a", "d", "h", "d", "2", "0", "0", "_", "p", "r", "i", "v", "a", "t", "e", "/", "k", "e", "y">>,
     isfile |-> TRUE, content |-> <<"b", "a">>],
    [path |-> <<"/", "e", "t", "c", "/", "p", "a", "s", "s", "w", "d">>, isfile |-> TRUE, content |-> <<"a", "a">>] }
ServerSymlinks == {
    [path |-> <<"/", "m", "i", "n", "d", "h", "i", "v", "e", "/", "x", "n", "a", "t", "/", "s", "u", "r", "f", "a", "c", "e", "s", "/", "a", "d", "h", "d", "2", "0", "0", "/", "l", "n">>,
     target |-> <<"/", "e", "t", "c", "/", "p", "a", "s", "s", "w", "d">>] }

\* the file_uri arguments of the requests
Uris == {
    <<"f", "i", "l", "e", ":", "/", "/", "/", "m", "i", "n", "d", "h", "i", "v", "e", "/", "x", "n", "a", "t", "/", "s", "u", "r", "f", "a", "c", "e", "s", "/", "a", "d", "h", "d", "2", "0", "0", "/", "s", "1", "/", "l", "h", ".", "p", "i", "a", "l">>,
    <<"f", "i", "l", "e", ":", "/", "/", "/", "m", "i", "n", "d", "h", "i", "v", "e", "/", "x", "n", "a", "t", "/", "s", "u", "r", "f", "a", "c", "e", "s", "/", "a", "d", "h", "d", "2", "0", "0", "/", "s", "1", "/", ".", ".", "/", "s", "1", "/", "l", "h", ".", "p", "i", "a", "l">>,
    <<"f", "i", "l", "e", ":", "/", "/", "/", "m", "i", "n", "d", "h", "i", "v", "e", "/", "x", "n", "a", "t", "/", "s", "u", "r", "f", "a", "c", "e", "s", "/", "a", "d", "h", "d", "2", "0", "0", "/", ".", ".", "/", ".", ".", "/", ".", ".", "/", ".", ".", "/", "e", "t", "c", "/", "p", "a", "s", "s", "w", "d">>,
    <<"f", "i", "l", "e", ":", "/", "/", "/", "m", "i", "n", "d", "h", "i", "v", "e", "/", "x", "n", "a", "t", "/", "s", "u", "r", "f", "a", "c", "e", "s", "/", "a", "d", "h", "d", "2", "0", "0", "/", "l", "n">>,
    <<"f", "i", "l", "e", ":", "/", "/", "/", "m", "i", "n", "d", "h", "i", "v", "e", "/", "x", "n", "a", "t", "/", "s", "u", "r", "f", "a", "c", "e", "s", "/", "a", "d", "h", "d", "2", "0", "0", "/", "m", "i", "s", "s", "i", "n", "g">>,
    <<"f", "i", "l", "e", ":", "/", "/", "/", "m", "i", "n", "d", "h", "i", "v", "e", "/", "x", "n", "a", "t", "/", "s", "u", "r", "f", "a", "c", "e", "s", "/", "a", "d", "h", "d", "2", "0", "0", "_", "p", "r", "i", "v", "a", "t", "e", "/", "k", "e", "y">>,
    <<"f", "i", "l", "e", ":", "/", "/", "/", "m", "i", "n", "d", "h", "i", "v", "e", "/", "x", "n", "a", "t", "/", "s", "u", "r", "f", "a", "c", "e", "s", "/", "a", "d", "h", "d", "2", "0", "0", "/", "s", "1">> }

\* urlparse(file_uri).path: what follows the scheme and the network location
UrlPath(uri) ==
    LET rest == SubSeq(uri, FindFirst(<<":", "/", "/">>, uri) + 3, Len(uri))
    IN IF FindFirst(<<":", "/", "/">>, uri) = 0 THEN uri
       ELSE IF FindFirst(<<"/">>, rest) = 0 THEN <<>>
       ELSE SubSeq(rest, FindFirst(<<"/">>, rest), Len(rest))

\* os.path.realpath: the empty, "." and ".." segments are resolved, then a
\* path that is a symbolic link is replaced by its target
RECURSIVE Collapse(_, _)
Collapse(segs, stack) ==
    IF segs = <<>> THEN stack
    ELSE IF Head(segs) \in {<<>>, <<".">>} THEN Collapse(Tail(segs), stack)
    ELSE IF Head(segs) = <<".", ".">>
    THEN Collapse(Tail(segs), IF stack = <<>> THEN stack ELSE ButLast(stack))
    ELSE Collapse(Tail(segs), Append(stack, Head(segs)))
realpath(path) ==
    LET norm == <<"/">> \o Join(Collapse(Split(path, <<"/">>), <<>>), <<"/">>)
    IN IF \E l \in ServerSymlinks : l.path = norm
       THEN (CHOOSE l \in ServerSymlinks : l.path = norm).target
       ELSE norm

\* os.path.exists, and nipype's hash_infile: None unless a regular file
exists(path) == \E f \in ServerFiles : f.path = path
sv_hash_infile(path) ==
    IF \E f \in ServerFiles : f.path = path /\ f.isfile
    THEN Hex(hexdigest(<<"m", "d", "5">>,
                       (CHOOSE f \in ServerFiles : f.path = path).content))
    ELSE None

\* a test that also asks for the separator after the directory's name
StartsWithDir(path, dir) == StartsWith(path, dir \o <<"/">>)

\* line 28: fullpath.startswith('/mindhive/xnat/surfaces/adhd200')
Allowed(path) == StartsWith(path, <<"/", "m", "i", "n", "d", "h", "i", "v", "e", "/", "x", "n", "a", "t", "/", "s", "u", "r", "f", "a", "c", "e", "s", "/", "a", "d", "h", "d", "2", "0", "0">>)

NoReply == [status |-> 0, uri |-> <<>>, md5sum |-> <<>>, error |-> "none"]
HTTPError(status, error) ==
    [status |-> status, uri |-> <<>>, md5sum |-> <<>>, error |-> error]

SvInit ==
    /\ sv_pc = [t \in Threads |-> "idle"]
    /\ file_uri = [t \in Threads |-> <<>>]
    /\ fullpath = [t \in Threads |-> <<>>]
    /\ file_hash = [t \in Threads |-> None]
    /\ object_hash = [t \in Threads |-> <<>>]
    /\ reply = [t \in Threads |-> NoReply]
    /\ links = {}
    /\ served = 0

SvIdle ==
    /\ sv_pc = [t \in Threads |-> "off"]
    /\ file_uri = [t \in Threads |-> <<>>]
    /\ fullpath = [t \in Threads |-> <<>>]
    /\ file_hash = [t \in Threads |-> None]
    /\ object_hash = [t \in Threads |-> <<>>]
    /\ reply = [t \in Threads |-> NoReply]
    /\ links = {}
    /\ served = 0

\* lines 22-25: a thread takes a request and resolves its path
SvRequest(t) ==
    /\ sv_pc[t] \in {"idle", "done"}
    /\ served < MaxRequests
    /\ served' = served + 1
    /\ \E u \in Uris :
          /\ file_uri' = [file_uri EXCEPT ![t] = u]
          /\ fullpath' = [fullpath EXCEPT ![t] = realpath(UrlPath(u))]
    /\ file_hash' = [file_hash EXCEPT ![t] = None]
    /\ object_hash' = [object_hash EXCEPT ![t] = <<>>]
    /\ reply' = [reply EXCEPT ![t] = NoReply]
    /\ sv_pc' = [sv_pc EXCEPT ![t] = "authorize"]
    /\ UNCHANGED links

\* lines 27-29
SvAuthorize(t) ==
    /\ sv_pc[t] = "authorize"
    /\ IF ~exists(fullpath[t]) \/ ~Allowed(fullpath[t])
       THEN /\ reply' = [reply EXCEPT ![t] = HTTPError(403, "Forbidden")]
            /\ sv_pc' = [sv_pc EXCEPT ![t] = "done"]
       ELSE /\ sv_pc' = [sv_pc EXCEPT ![t] = "hash"]
            /\ UNCHANGED reply
    /\ UNCHANGED <<file_uri, fullpath, file_hash, object_hash, links, served>>

\* lines 30-32: file_uri + None raises TypeError, answered with status 500
SvHash(t) ==
    /\ sv_pc[t] = "hash"
    /\ file_hash' = [file_hash EXCEPT ![t] = sv_hash_infile(fullpath[t])]
    /\ IF sv_hash_infile(fullpath[t]).none
       THEN /\ reply' = [reply EXCEPT ![t] = HTTPError(500, "TypeError")]
            /\ sv_pc' = [sv_pc EXCEPT ![t] = "done"]
            /\ UNCHANGED object_hash
       ELSE /\ object_hash' =
                  [object_hash EXCEPT ![t] =
                      hexdigest(<<"m", "d", "5">>,
                                file_uri[t]
                                \o sv_hash_infile(fullpath[t]).text)]
            /\ sv_pc' = [sv_pc EXCEPT ![t] = "exists"]
            /\ UNCHANGED reply
    /\ UNCHANGED <<file_uri, fullpath, links, served>>

\* line 33: if not os.path.exists(link_path)
SvExists(t) ==
    /\ sv_pc[t] = "exists"
    /\ sv_pc' = [sv_pc EXCEPT ![t] =
                    IF \E l \in links : l.name = object_hash[t]
                    THEN "respond" ELSE "symlink"]
    /\ UNCHANGED <<file_uri, fullpath, file_hash, object_hash, reply, links,
                   served>>

\* line 34: os.symlink raises OSError (EEXIST) when link_path is there by
\* now, answered with status 500
SvSymlink(t) ==
    /\ sv_pc[t] = "symlink"
    /\ IF \E l \in links : l.name = object_hash[t]
       THEN /\ reply' = [reply EXCEPT ![t] = HTTPError(500, "OSError")]
            /\ sv_pc' = [sv_pc EXCEPT ![t] = "done"]
            /\ UNCHANGED links
       ELSE /\ links' = links \cup {[name |-> object_hash[t],
                                     target |-> fullpath[t]]}
            /\ sv_pc' = [sv_pc EXCEPT ![t] = "respond"]
            /\ UNCHANGED reply
    /\ UNCHANGED <<file_uri, fullpath, file_hash, object_hash, served>>

\* lines 35-37: the uri is relative to the server's base
SvRespond(t) ==
    /\ sv_pc[t] = "respond"
    /\ reply' = [reply EXCEPT ![t] =
                    [status |-> 200,
                     uri |-> <<"/", "f", "i", "l", "e", "s", "/">> \o object_hash[t],
                     md5sum |-> file_hash[t].text,
                     error |-> "none"]]
    /\ sv_pc' = [sv_pc EXCEPT ![t] = "done"]
    /\ UNCHANGED <<file_uri, fullpath, file_hash, object_hash, links, served>>

---------------------------------------------------------------------------
\* Specifications: one encoding job each, on a fresh bundle.

GInit ==
    /\ g_rec = <<>>
    /\ g_rel = <<>>
    /\ uuid = 0

\* encode_fs_directory / to_graph
Init == GInit /\ FsInit /\ StIdle /\ CsvIdle /\ UpIdle /\ JobIdle /\ HashIdle /\ NbIdle /\ RsIdle /\ SvIdle
Next ==
    \/ FsSetup /\ UNCHANGED <<stVars, csvVars, upVars, jobVars, hashVars, nbVars, rsVars, svVars>>
    \/ FsNextDir /\ UNCHANGED <<stVars, csvVars, upVars, jobVars, hashVars, nbVars, rsVars, svVars>>
    \/ FsFile /\ UNCHANGED <<stVars, csvVars, upVars, jobVars, hashVars, nbVars, rsVars, svVars>>
    \/ FsDirDone /\ UNCHANGED <<stVars, csvVars, upVars, jobVars, hashVars, nbVars, rsVars, svVars>>
    \/ FsReturn /\ UNCHANGED <<stVars, csvVars, upVars, jobVars, hashVars, nbVars, rsVars, svVars>>
    \/ FsWrite /\ UNCHANGED <<stVars, csvVars, upVars, jobVars, hashVars, nbVars, rsVars, svVars>>
Spec == Init /\ [][Next]_vars

\* parse_stats
InitStats == GInit /\ StInit /\ FsIdle /\ CsvIdle /\ UpIdle /\ JobIdle /\ HashIdle /\ NbIdle /\ RsIdle /\ SvIdle
NextStats ==
    \/ StSetup /\ UNCHANGED <<fsVars, csvVars, upVars, jobVars, hashVars, nbVars, rsVars, svVars>>
    \/ StMeasure /\ UNCHANGED <<fsVars, csvVars, upVars, jobVars, hashVars, nbVars, rsVars, svVars>>
    \/ StFinish /\ UNCHANGED <<fsVars, csvVars, upVars, jobVars, hashVars, nbVars, rsVars, svVars>>
SpecStats == InitStats /\ [][NextStats]_vars

\* csv2provgraph
InitCsv == GInit /\ CsvInit /\ FsIdle /\ StIdle /\ UpIdle /\ JobIdle /\ HashIdle /\ NbIdle /\ RsIdle /\ SvIdle
NextCsv ==
    \/ CsvSetup /\ UNCHANGED <<fsVars, stVars, upVars, jobVars, hashVars, nbVars, rsVars, svVars>>
    \/ CsvColumn /\ UNCHANGED <<fsVars, stVars, upVars, jobVars, hashVars, nbVars, rsVars, svVars>>
    \/ CsvColumnsDone /\ UNCHANGED <<fsVars, stVars, upVars, jobVars, hashVars, nbVars, rsVars, svVars>>
    \/ CsvRow /\ UNCHANGED <<fsVars, stVars, upVars, jobVars, hashVars, nbVars, rsVars, svVars>>
    \/ CsvReturn /\ UNCHANGED <<fsVars, stVars, upVars, jobVars, hashVars, nbVars, rsVars, svVars>>
SpecCsv == InitCsv /\ [][NextCsv]_vars

\* upload_graph
InitUpload == GInit /\ UpInit /\ FsIdle /\ StIdle /\ CsvIdle /\ JobIdle /\ HashIdle /\ NbIdle /\ RsIdle /\ SvIdle
NextUpload ==
    \/ UpStart /\ UNCHANGED <<fsVars, stVars, csvVars, jobVars, gVars, hashVars, nbVars, rsVars, svVars>>
    \/ UpPost /\ UNCHANGED <<fsVars, stVars, csvVars, jobVars, gVars, hashVars, nbVars, rsVars, svVars>>
    \/ UpDone /\ UNCHANGED <<fsVars, stVars, csvVars, jobVars, gVars, hashVars, nbVars, rsVars, svVars>>
SpecUpload == InitUpload /\ [][NextUpload]_vars
\* the loop is sequential code: a step that can be taken is taken
SpecUploadFair == SpecUpload /\ WF_vars(NextUpload)

\* process_collection / job
InitJob == GInit /\ JobInit /\ FsIdle /\ StIdle /\ CsvIdle /\ UpIdle /\ HashIdle /\ NbIdle /\ RsIdle /\ SvIdle
NextJob ==
    \/ JobGet /\ UNCHANGED <<fsVars, stVars, csvVars, upVars, gVars, hashVars, nbVars, rsVars, svVars>>
    \/ JobFetch /\ UNCHANGED <<fsVars, stVars, csvVars, upVars, gVars, hashVars, nbVars, rsVars, svVars>>
    \/ JobParse /\ UNCHANGED <<fsVars, stVars, csvVars, upVars, gVars, hashVars, nbVars, rsVars, svVars>>
    \/ JobReturnNone /\ UNCHANGED <<fsVars, stVars, csvVars, upVars, gVars, hashVars, nbVars, rsVars, svVars>>
    \/ JobUnpack /\ UNCHANGED <<fsVars, stVars, csvVars, upVars, gVars, hashVars, nbVars, rsVars, svVars>>
    \/ JobDone /\ UNCHANGED <<fsVars, stVars, csvVars, upVars, gVars, hashVars, nbVars, rsVars, svVars>>
SpecJob == InitJob /\ [][NextJob]_vars

\* hash_infile
InitHash == GInit /\ HashInit /\ FsIdle /\ StIdle /\ CsvIdle /\ UpIdle /\ JobIdle /\ NbIdle /\ RsIdle /\ SvIdle
NextHash ==
    \/ HashOpen /\ UNCHANGED <<fsVars, stVars, csvVars, upVars, jobVars, gVars, nbVars, rsVars, svVars>>
    \/ HashRead /\ UNCHANGED <<fsVars, stVars, csvVars, upVars, jobVars, gVars, nbVars, rsVars, svVars>>
    \/ HashClose /\ UNCHANGED <<fsVars, stVars, csvVars, upVars, jobVars, gVars, nbVars, rsVars, svVars>>
    \/ HashReturn /\ UNCHANGED <<fsVars, stVars, csvVars, upVars, jobVars, gVars, nbVars, rsVars, svVars>>
SpecHash == InitHash /\ [][NextHash]_vars

\* any one of the three encoding jobs
InitEncode ==
    /\ GInit /\ UpIdle /\ JobIdle /\ HashIdle /\ NbIdle /\ RsIdle /\ SvIdle
    /\ \/ FsInit /\ StIdle /\ CsvIdle
       \/ FsIdle /\ StInit /\ CsvIdle
       \/ FsIdle /\ StIdle /\ CsvInit
NextEncode ==
    \/ FsSetup /\ UNCHANGED <<stVars, csvVars, upVars, jobVars, hashVars, nbVars, rsVars, svVars>>
    \/ FsNextDir /\ UNCHANGED <<stVars, csvVars, upVars, jobVars, hashVars, nbVars, rsVars, svVars>>
    \/ FsFile /\ UNCHANGED <<stVars, csvVars, upVars, jobVars, hashVars, nbVars, rsVars, svVars>>
    \/ FsDirDone /\ UNCHANGED <<stVars, csvVars, upVars, jobVars, hashVars, nbVars, rsVars, svVars>>
    \/ FsReturn /\ UNCHANGED <<stVars, csvVars, upVars, jobVars, hashVars, nbVars, rsVars, svVars>>
    \/ FsWrite /\ UNCHANGED <<stVars, csvVars, upVars, jobVars, hashVars, nbVars, rsVars, svVars>>
    \/ StSetup /\ UNCHANGED <<fsVars, csvVars, upVars, jobVars, hashVars, nbVars, rsVars, svVars>>
    \/ StMeasure /\ UNCHANGED <<fsVars, csvVars, upVars, jobVars, hashVars, nbVars, rsVars, svVars>>
    \/ StFinish /\ UNCHANGED <<fsVars, csvVars, upVars, jobVars, hashVars, nbVars, rsVars, svVars>>
    \/ CsvSetup /\ UNCHANGED <<fsVars, stVars, upVars, jobVars, hashVars, nbVars, rsVars, svVars>>
    \/ CsvColumn /\ UNCHANGED <<fsVars, stVars, upVars, jobVars, hashVars, nbVars, rsVars, svVars>>
    \/ CsvColumnsDone /\ UNCHANGED <<fsVars, stVars, upVars, jobVars, hashVars, nbVars, rsVars, svVars>>
    \/ CsvRow /\ UNCHANGED <<fsVars, stVars, upVars, jobVars, hashVars, nbVars, rsVars, svVars>>
    \/ CsvReturn /\ UNCHANGED <<fsVars, stVars, upVars, jobVars, hashVars, nbVars, rsVars, svVars>>
SpecEncode == InitEncode /\ [][NextEncode]_vars

\* the notebook's encode_fs_directory, twice
InitNotebook ==
    GInit /\ NbInit /\ StIdle /\ CsvIdle /\ UpIdle /\ JobIdle /\ HashIdle /\ RsIdle /\ SvIdle
NextNotebook ==
    \/ NbSetup /\ UNCHANGED <<stVars, csvVars, upVars, jobVars, hashVars, rsVars, svVars>>
    \/ NbNextDir /\ UNCHANGED <<stVars, csvVars, upVars, jobVars, hashVars, rsVars, svVars>>
    \/ NbFile /\ UNCHANGED <<stVars, csvVars, upVars, jobVars, hashVars, rsVars, svVars>>
    \/ NbDirDone /\ UNCHANGED <<stVars, csvVars, upVars, jobVars, hashVars, rsVars, svVars>>
    \/ NbReturn /\ UNCHANGED <<stVars, csvVars, upVars, jobVars, hashVars, rsVars, svVars>>
    \/ NbRunAgain /\ UNCHANGED <<stVars, csvVars, upVars, jobVars, hashVars, rsVars, svVars>>
SpecNotebook == InitNotebook /\ [][NextNotebook]_vars

\* read_stats
InitReadStats ==
    /\ GInit /\ RsInit /\ FsIdle /\ StIdle /\ CsvIdle /\ UpIdle /\ JobIdle
    /\ HashIdle /\ NbIdle /\ SvIdle
NextReadStats ==
    \/ RsLine /\ UNCHANGED <<gVars, fsVars, stVars, csvVars, upVars, jobVars, hashVars, nbVars, svVars>>
    \/ RsReturn /\ UNCHANGED <<gVars, fsVars, stVars, csvVars, upVars, jobVars, hashVars, nbVars, svVars>>
SpecReadStats == InitReadStats /\ [][NextReadStats]_vars

\* FileServer.file on two request threads
InitServer ==
    /\ GInit /\ SvInit /\ FsIdle /\ StIdle /\ CsvIdle /\ UpIdle /\ JobIdle
    /\ HashIdle /\ NbIdle /\ RsIdle
NextServer ==
    \/ (\E t \in Threads : SvRequest(t)) /\ UNCHANGED <<gVars, fsVars, stVars, csvVars, upVars, jobVars, hashVars, nbVars, rsVars>>
    \/ (\E t \in Threads : SvAuthorize(t)) /\ UNCHANGED <<gVars, fsVars, stVars, csvVars, upVars, jobVars, hashVars, nbVars, rsVars>>
    \/ (\E t \in Threads : SvHash(t)) /\ UNCHANGED <<gVars, fsVars, stVars, csvVars, upVars, jobVars, hashVars, nbVars, rsVars>>
    \/ (\E t \in Threads : SvExists(t)) /\ UNCHANGED <<gVars, fsVars, stVars, csvVars, upVars, jobVars, hashVars, nbVars, rsVars>>
    \/ (\E t \in Threads : SvSymlink(t)) /\ UNCHANGED <<gVars, fsVars, stVars, csvVars, upVars, jobVars, hashVars, nbVars, rsVars>>
    \/ (\E t \in Threads : SvRespond(t)) /\ UNCHANGED <<gVars, fsVars, stVars, csvVars, upVars, jobVars, hashVars, nbVars, rsVars>>
SpecServer == InitServer /\ [][NextServer]_vars

---------------------------------------------------------------------------
\* Properties of encode_fs_directory / create_entity / to_graph.

Hidden(f) == StartsWith(Catalog[f].name, <<".">>)
PathHasIgnoreToken(f) ==
    \E k \in 1..Len(ignore_list) : Contains(ignore_list[k], RealPath(f))
UnderSubject(f) == Contains(subject_id, RealPath(f))
Encodable(f) ==
    Catalog[f].isfile /\ Catalog[f].readable /\ UnderSubject(f)

\* the prov:location attribute create_entity gives the entity of file f
LocationOf(f) ==
    Attr(QN("prov", "location"),
         UriRef("http://computor.mit.edu:10101/file?file_uri=file://",
                hostname \o RealPath(f)))
HasKey(rec, key) == \E k \in 1..Len(rec.attrs) : rec.attrs[k].key = key
\* the records create_entity added, and those of file f
FileEntities ==
    {k \in 1..Len(g_rec) :
        g_rec[k].kind = "entity" /\ HasKey(g_rec[k], QN("fs", "relative_path"))}
EntitiesOf(f) == {k \in FileEntities : InSeq(LocationOf(f), g_rec[k].attrs)}
\* the hadMember edges from the subject collection to an entity of file f
MemberEdgesOf(f) ==
    {k \in Members(fsdir_collection) :
        \E e \in EntitiesOf(f) : g_rel[k].to = g_rec[e].id}
FileMemberEdges ==
    {k \in Members(fsdir_collection) :
        \E e \in FileEntities : g_rel[k].to = g_rec[e].id}

ExactlyCapEntities ==
    /\ Cardinality(FileEntities) = n_items
    /\ Cardinality(FileMemberEdges) = n_items
    /\ Cardinality(Members(fsdir_collection)) = n_items
    /\ \A e \in FileEntities :
          Cardinality({k \in FileMemberEdges : g_rel[k].to = g_rec[e].id}) = 1
    /\ Cardinality({f \in present : EntitiesOf(f) # {}}) = n_items
    /\ \A f \in present : Cardinality(EntitiesOf(f)) <= 1

C2_IgnoredNeverEncoded ==
    \A f \in present :
        PathHasIgnoreToken(f) => EntitiesOf(f) = {} /\ MemberEdgesOf(f) = {}

\* files matching the first token only, the last token only, and two
\* tokens, all of them reached below the cap
C2_Witness ==
    /\ fs_pc = "returned"
    /\ present = {5, 6, 7}
    /\ i = 3
    /\ n_items >= 3

\* C5: a file whose encoding raises IOError has no entity and no edge; the
\* IOError never ends the walk (only another exception does); and when the
\* walk returns without having reached the cap, every eligible file has its
\* entity and its edge although others raised IOError.
C5_IOErrorSkipsOneFile ==
    /\ \A f \in present :
          (UnderSubject(f) /\ ~Catalog[f].readable)
          => EntitiesOf(f) = {} /\ MemberEdgesOf(f) = {}
    /\ fs_pc = "raised" =>
          \E f \in present : ~Hidden(f) /\ ~UnderSubject(f)
    /\ (/\ fs_pc = "returned"
        /\ Cardinality({f \in present : ~Hidden(f)}) <= n_items)
       => \A f \in present :
             (~Hidden(f) /\ ~PathHasIgnoreToken(f) /\ Encodable(f))
             => EntitiesOf(f) # {} /\ MemberEdgesOf(f) # {}

\* the unreadable stats/lh.stats was walked before mri/T1.mgz was encoded
C5_Witness ==
    /\ 9 \in present
    /\ <<"s", "t", "a", "t", "s">> \in visited
    /\ dirpath = <<"m", "r", "i">>
    /\ EntitiesOf(9) = {}
    /\ EntitiesOf(2) # {} /\ MemberEdgesOf(2) # {}

\* C6: when the root directory does not exist the job ends in an error: no
\* graph is returned by encode_fs_directory or written by to_graph.
C6_MissingRootIsFatal ==
    ~rootExists => fs_pc \notin {"returned", "written"}

\* C8: every entity made by create_entity carries, for every fs_file_map
\* entry whose token occurs in its filename (its prov:label), all ontology
\* pairs of that entry, whichever other entries match.
C8_AllMatchingEntriesApply ==
    \A e \in FileEntities :
        \A k \in 1..Len(fs_file_map) :
            \A name \in {g_rec[e].attrs[j].val.s :
                            j \in {x \in 1..Len(g_rec[e].attrs) :
                                     g_rec[e].attrs[x].key = QN("prov", "label")}} :
                Contains(fs_file_map[k].key, name) =>
                    \A u \in 1..Len(fs_file_map[k].uris) :
                        InSeq(Attr(IF fs_file_map[k].uris[u].tuple
                                   THEN fs_file_map[k].uris[u].k
                                   ELSE QN("prov", "type"),
                                   Uri(fs_file_map[k].uris[u].v)),
                              g_rec[e].attrs)

\* label/lh.rh is encoded with the left and the right hemisphere pair
C8_Witness ==
    \E e \in EntitiesOf(4) :
        /\ InSeq(Attr(QN("nidm", "AnatomicalAnnotation"), Uri(QN("obo", "UBERON_0002812"))),
                 g_rec[e].attrs)
        /\ InSeq(Attr(QN("nidm", "AnatomicalAnnotation"), Uri(QN("obo", "UBERON_0002813"))),
                 g_rec[e].attrs)

---------------------------------------------------------------------------
\* Properties of parse_stats.

StructsSeen == {measures[m].structure : m \in 1..Len(measures)}
\* the entities annotated with structure s
StructEntities(s) ==
    {k \in 1..Len(g_rec) :
        /\ g_rec[k].kind = "entity"
        /\ InSeq(Attr(QN("nidm", "AnatomicalAnnotation"), Uri(QN("fs", s))),
                 g_rec[k].attrs)}
\* the measure attributes (all but the annotation) of record e
ValueAttrs(e) ==
    SelectSeq(g_rec[e].attrs,
              LAMBDA a : a.key # QN("nidm", "AnatomicalAnnotation"))
\* the measure attributes the occurrences m.. of structure s call for
RECURSIVE ExpectedValueAttrs(_, _)
ExpectedValueAttrs(s, m) ==
    IF m > Len(measures) THEN <<>>
    ELSE (IF measures[m].structure # s THEN <<>>
          ELSE IF measures[m].source = "Header"
          THEN <<Attr(QN("fs", measures[m].name),
                      ValRef(measures[m].units \in {"unitless", "NA"},
                             measures[m].value))>>
          ELSE ItemAttrs(measures[m].items))
         \o ExpectedValueAttrs(s, m + 1)

\* C3: in the returned graph every structure named by the measures has
\* exactly one entity, and the measure attributes of that entity are those
\* of all occurrences of the structure (header and table), none lost.
C3_OneEntityPerStructure ==
    st_pc = "returned" =>
        \A s \in StructsSeen :
            /\ Cardinality(StructEntities(s)) = 1
            /\ \A e \in StructEntities(s) :
                  ValueAttrs(e) = ExpectedValueAttrs(s, 1)

\* Cortex occurs in a header measure and in a table row
C3_Witness ==
    /\ st_pc = "returned"
    /\ \E a, b \in 1..Len(measures) :
          /\ measures[a].structure = "Cortex" /\ measures[a].source = "Header"
          /\ measures[b].structure = "Cortex" /\ measures[b].source = "Table"
    /\ \E e \in StructEntities("Cortex") : Len(ValueAttrs(e)) >= 3

---------------------------------------------------------------------------
\* Properties of csv2provgraph.

\* the identifiers the job gave its logical objects: one per record made by
\* entity / collection / activity / agent
IdsUnique ==
    \A a, b \in 1..Len(g_rec) : a # b => g_rec[a].id # g_rec[b].id

\* C4: no two distinct logical objects of one job share an identifier; in
\* particular two distinct csv columns never get the same column uri.
C4_IdentifiersUnique ==
    /\ IdsUnique
    /\ \A a, b \in 1..Len(column_uri) :
          column_uri[a].column # column_uri[b].column
          => column_uri[a].uri # column_uri[b].uri

\* the row entity of the k-th data row
RowEntity(k) ==
    CHOOSE e \in 1..Len(g_rec) :
        InSeq(Attr(QN("prov", "location"), TypedLit("integer", NatText(k))),
              g_rec[e].attrs)
        /\ InSeq(Attr(QN("prov", "type"), Uri(QN("nidm", "csv_row"))),
                 g_rec[e].attrs)
CellPresent(raw) == raw \notin { <<"N", "/", "A">>, <<"p", "e", "n", "d", "i", "n", "g">>, <<"-", "9", "9", "9">>, <<>> }
\* the attributes of record e that are keyed by the uri of column c
ColumnAttrs(e, c) ==
    SelectSeq(g_rec[e].attrs,
              LAMBDA a : a.key = NiiriLocal(csv_id, ColumnLocal(columns[c])))

\* C9: the job returns a graph in which the entity of every processed row
\* has an attribute for column C exactly when the row's cell in C is present.
C9_AttributeIffPresent ==
    /\ csv_pc # "raised"
    /\ csv_pc = "returned" =>
          \A k \in 1..row_count : \A c \in 1..Len(columns) :
              CellPresent(data[k][c]) <=> ColumnAttrs(RowEntity(k), c) # <<>>

---------------------------------------------------------------------------
\* Properties of upload_graph.

RECURSIVE Flatten(_)
Flatten(batches) ==
    IF batches = <<>> THEN <<>> ELSE Head(batches) \o Flatten(Tail(batches))

\* C7: the requests carry consecutive batches of at most 1000 statements;
\* put end to end they are the statements before the counter, in order, and
\* when the loop is over they are the whole statement sequence: nothing is
\* skipped, repeated or reordered.
C7_BatchesPartitionStatements ==
    /\ \A b \in 1..Len(posted) : Len(posted[b]) \in 1..1000
    /\ \A b \in 1..(Len(posted) - 1) : Len(posted[b]) = 1000
    /\ Flatten(posted) = SubSeq(stmts, 1, counter)
    /\ up_pc = "done" => Flatten(posted) = stmts

\* 2001 statements went out in three requests
C7_Witness ==
    /\ up_pc = "done"
    /\ Len(stmts) = 2001
    /\ Len(posted) = 3
    /\ Len(posted[3]) = 1

---------------------------------------------------------------------------
\* Properties of job.

\* C10: a stats file is downloaded and parsed only for a row whose recorded
\* md5 equals the md5sum of the service's answer; on a mismatch nothing is
\* downloaded or parsed and job returns None.
C10_ParseOnlyOnMatchingDigest ==
    /\ \A k \in fetched \cup parsed :
          k <= Len(answers) /\ results[k].text = answers[k].text
    /\ \A k \in 1..Len(returned) :
          /\ returned[k] = "graphs" =>
                results[k].text = answers[k].text /\ k \in fetched \cap parsed
          /\ returned[k] = "None" =>
                results[k].text # answers[k].text /\ k \notin fetched \cup parsed
    /\ \A k \in 1..Len(answers) :
          (results[k].text # answers[k].text /\ job_pc # "answered")
          => k <= Len(returned) /\ returned[k] = "None"

\* one row was parsed after its digests matched, the next was refused
C10_Witness ==
    /\ Len(returned) = 2
    /\ returned[1] = "graphs" /\ 1 \in parsed
    /\ returned[2] = "None" /\ 2 \notin fetched
    /\ results[2].text # answers[2].text

---------------------------------------------------------------------------
\* Properties of hash_infile.

\* C11: once hash_infile has returned or raised, the file it opened is
\* closed: no handle is left open, also when a read failed part-way.
C11_HandleReleasedOnEveryExit ==
    h_pc \in {"returned", "raised"} => open_files = 0

\* C12: on a path that is not an existing regular file hash_infile opens
\* nothing, does not raise, and returns the no-digest value None.
C12_NoDigestForNonFile ==
    ~afile.isfile =>
        /\ opens = 0 /\ open_files = 0
        /\ h_pc # "raised"
        /\ h_pc = "returned" => hex = None

C12_Witness ==
    /\ h_pc = "returned"
    /\ ~afile.isfile /\ afile.readable /\ afile.content # <<>>
    /\ hex = None

\* C13: the digest object is fed the bytes read so far, each once and in
\* file order; a call that returns for a regular file returns the digest of
\* the whole content, whatever chunk_len and the file's length, after
\* exactly one empty read.
C13_DigestOfWholeContent ==
    /\ h_pc \in {"read", "close"} =>
          crypto_obj = SubSeq(afile.content, 1, fp)
    /\ h_pc = "close" => fp = Len(afile.content)
    /\ (h_pc = "returned" /\ afile.isfile) =>
          hex = Hex(crypto \o <<":">> \o afile.content)

\* a file of two full chunks, and the empty file
C13_Witness ==
    /\ h_pc = "returned"
    /\ afile.isfile
    /\ chunk_len = 2
    /\ Len(afile.content) = 4
    /\ hex = Hex(crypto \o <<":">> \o afile.content)

---------------------------------------------------------------------------
\* Properties of every encoding job (encode_fs_directory, parse_stats,
\* csv2provgraph).

\* the top-level collection of the running job
TopCollection ==
    IF fs_pc # "idle" THEN fsdir_collection
    ELSE IF st_pc # "idle" THEN stat_collection
    ELSE NiiriId(csv_id)
JobReturned ==
    fs_pc \in {"returned", "written"} \/ st_pc = "returned"
    \/ csv_pc = "returned"

EdgesOf(rel) == {k \in 1..Len(g_rel) : g_rel[k].rel = rel}
\* the identifiers reached from those of S along edges of kind rel
RECURSIVE Closure(_, _)
Closure(rel, S) ==
    LET T == S \cup {g_rel[k].to : k \in {x \in EdgesOf(rel) : g_rel[x].from \in S}}
    IN IF T = S THEN S ELSE Closure(rel, T)
Acyclic(rel) ==
    \A k \in EdgesOf(rel) : g_rel[k].from \notin Closure(rel, {g_rel[k].to})

\* C14: once the wasGeneratedBy edge of the collection is in the graph, no
\* step of the job adds a record or a hadMember edge.
C14_GeneratedByAfterWalk ==
    [][EdgesOf("wasGeneratedBy") # {} =>
          /\ Len(g_rec') = Len(g_rec)
          /\ Cardinality({k \in 1..Len(g_rel') : g_rel'[k].rel = "hadMember"})
                = Cardinality(EdgesOf("hadMember"))]_vars

\* C18: the job's graph has at most one wasDerivedFrom edge, and exactly one
\* once the job returned; it leaves the job's top-level collection, a
\* collection created by the job, for another identifier; nothing is derived
\* from its target and nothing derives into the collection; the relation is
\* acyclic.
C18_DerivationAcyclic ==
    /\ Cardinality(EdgesOf("wasDerivedFrom")) <= 1
    /\ JobReturned => Cardinality(EdgesOf("wasDerivedFrom")) = 1
    /\ \A k \in EdgesOf("wasDerivedFrom") :
          /\ g_rel[k].from = TopCollection
          /\ \E r \in 1..Len(g_rec) :
                g_rec[r].id = g_rel[k].from /\ g_rec[r].kind = "collection"
          /\ g_rel[k].to # g_rel[k].from
          /\ \A j \in EdgesOf("wasDerivedFrom") :
                g_rel[j].from # g_rel[k].to /\ g_rel[j].to # TopCollection
    /\ Acyclic("wasDerivedFrom")

\* a returned csv job, a returned stats job
C18_Witness ==
    /\ st_pc = "returned"
    /\ Len(measures) = 2
    /\ g_rel[Len(g_rel) - 1] = Rel("wasDerivedFrom", stat_collection, entity_uri)

\* C19: the hadMember edges are a forest rooted at the top-level collection:
\* no identifier is the target of two edges, no collection is reached from
\* itself, and every member is reached from the top-level collection.
C19_MembershipForest ==
    /\ \A a, b \in EdgesOf("hadMember") :
          a # b => g_rel[a].to # g_rel[b].to
    /\ Acyclic("hadMember")
    /\ \A k \in EdgesOf("hadMember") :
          g_rel[k].to \in Closure("hadMember", {TopCollection})

\* C20: from the step in which the count passes n_items on, no step of the
\* walk adds or changes a record or an edge of the graph, in whichever
\* directory.
C20_NothingAfterCap ==
    [][i' > n_items => (g_rec' = g_rec /\ g_rel' = g_rel)]_vars

\* the cap of one was passed in a first and again in a second directory
C20_Witness ==
    /\ fs_pc = "returned"
    /\ n_items = 1
    /\ i = 3
    /\ Cardinality(visited) >= 3
    /\ Cardinality(FileEntities) = 1

---------------------------------------------------------------------------
\* Properties of create_entity.

\* the path of file f relative to the subject root, its directory segments
\* and the segments of its filename
RelativeToRoot(f) ==
    IF Catalog[f].dir = <<>> THEN Catalog[f].name
    ELSE Catalog[f].dir \o <<"/">> \o Catalog[f].name
DirSegments(f) ==
    IF Catalog[f].dir = <<>> THEN <<>> ELSE Split(Catalog[f].dir, <<"/">>)
NameSegments(f) == Split(Catalog[f].name, <<".">>)
\* the nidm:tag attributes create_entity puts right after the five fixed ones
SegmentTags(e, n) ==
    [k \in 1..n |-> g_rec[e].attrs[5 + k]]

\* C15: the entity of every file below the subject root carries the file's
\* path relative to the root as fs:relative_path, followed by one tag per
\* directory segment and one per '.'-separated segment of the filename.
C15_RelativePathFromRoot ==
    \A f \in present : \A e \in EntitiesOf(f) :
        Catalog[f].link = <<>> =>
            LET segs == DirSegments(f) \o NameSegments(f)
            IN /\ g_rec[e].attrs[2] =
                     Attr(QN("fs", "relative_path"), Lit(RelativeToRoot(f)))
               /\ Len(g_rec[e].attrs) >= 5 + Len(segs)
               /\ SegmentTags(e, Len(segs)) =
                     [k \in 1..Len(segs) |->
                         Attr(QN("nidm", "tag"), Lit(segs[k]))]

---------------------------------------------------------------------------
\* Properties of parse_stats: literal types.

\* the values the measures before position n declare: structure, measure
\* name and unit
DeclaredValues(n) ==
    UNION {IF measures[m].source = "Header"
           THEN {[structure |-> measures[m].structure,
                  name |-> measures[m].name, units |-> measures[m].units]}
           ELSE {[structure |-> measures[m].structure,
                  name |-> measures[m].items[k].name,
                  units |-> measures[m].items[k].units] :
                     k \in 1..Len(measures[m].items)} :
           m \in 1..(n - 1)}

\* C16: parse_stats does not fail on a numeric value, and every value it
\* has encoded is an integer literal when its unit is 'unitless' or 'NA'
\* and a float literal otherwise, header measure or table column.
C16_UnitDecidesLiteralType ==
    /\ st_pc # "raised"
    /\ \A v \in DeclaredValues(mpos) :
          \E e \in StructEntities(v.structure) :
              \E a \in 1..Len(g_rec[e].attrs) :
                  /\ g_rec[e].attrs[a].key = QN("fs", v.name)
                  /\ g_rec[e].attrs[a].val.t =
                        (IF v.units \in {"unitless", "NA"} THEN "integer"
                         ELSE "float")

---------------------------------------------------------------------------
\* Properties of the notebook's deterministic-identifier encoder.

IsPrefix(a, b) == Len(a) <= Len(b) /\ SubSeq(b, 1, Len(a)) = a
HadMemberEdges(rels) == SelectSeq(rels, LAMBDA r : r.rel = "hadMember")

---------------------------------------------------------------------------
\* Termination of upload_graph.

\* C21: the counter never exceeds the statement count N and never goes
\* back; every iteration raises it and sends one request, none of them
\* twice, whatever the endpoint answers; the loop ends, after exactly
\* ceil(N/1000) requests (none when N = 0).
C21_UploadTerminates ==
    /\ [](/\ counter <= Len(stmts)
          /\ Len(posted) = (counter + 999) \div 1000
          /\ Len(result) = Len(posted)
          /\ \A a, b \in 1..Len(posted) : a # b => posted[a] # posted[b])
    /\ [][/\ counter' >= counter
          /\ Len(posted') > Len(posted) => counter' > counter]_vars
    /\ <>(/\ up_pc = "done"
          /\ Len(posted) = (Len(stmts) + 999) \div 1000)

\* two requests, the first of them answered with an error
C21_Witness ==
    /\ up_pc = "done"
    /\ Len(stmts) = 1001
    /\ Len(posted) = 2
    /\ result[1] = 500

---------------------------------------------------------------------------
\* Properties of create_entity: tags.

TagOf(text) == Attr(QN("nidm", "tag"), Lit(text))
Stripped(key) == LStrip(RStrip(key, {"."}), {"."})
\* the segments create_entity computed for entity e: those of its
\* fs:relative_path, the last of them split on '.'
SegmentsOf(e) ==
    LET parts == Split(g_rec[e].attrs[2].val.s, <<"/">>)
    IN ButLast(parts) \o Split(Last(parts), <<".">>)
\* the attributes after the five fixed ones and the segment tags
AfterSegments(e) ==
    SubSeq(g_rec[e].attrs, 6 + Len(SegmentsOf(e)), Len(g_rec[e].attrs))
MatchingEntries(e) ==
    {k \in 1..Len(fs_file_map) :
        Contains(fs_file_map[k].key, g_rec[e].attrs[1].val.s)}

\* C22: after its five fixed attributes every file entity has one nidm:tag
\* per segment, in order; after them, for each fs_file_map entry whose token
\* occurs in the filename, the stripped token is a tag exactly when it is
\* not one of the segments, and the entry's pairs are there in both cases;
\* no other tag follows.
C22_TagsVerbatimThenTokens ==
    \A e \in FileEntities :
        LET segs == SegmentsOf(e)
            rest == AfterSegments(e)
        IN /\ SubSeq(g_rec[e].attrs, 6, 5 + Len(segs))
                 = [k \in 1..Len(segs) |-> TagOf(segs[k])]
           /\ \A k \in MatchingEntries(e) :
                 /\ Cardinality({j \in 1..Len(rest) :
                                    rest[j] = TagOf(Stripped(fs_file_map[k].key))})
                       = (IF InSeq(Stripped(fs_file_map[k].key), segs)
                          THEN 0 ELSE 1)
                 /\ \A u \in 1..Len(fs_file_map[k].uris) :
                       \E j \in 1..Len(rest) :
                           /\ rest[j].val = Uri(fs_file_map[k].uris[u].v)
                           /\ rest[j].key =
                                 (IF fs_file_map[k].uris[u].tuple
                                  THEN fs_file_map[k].uris[u].k
                                  ELSE QN("prov", "type"))
           /\ \A j \in 1..Len(rest) :
                 rest[j].key = QN("nidm", "tag") =>
                     \E k \in MatchingEntries(e) :
                         rest[j] = TagOf(Stripped(fs_file_map[k].key))

\* label/lh.aparc.annot: 'lh' and 'annot' are segments already, the token
\* 'aparc.annot' is not and is added
C22_Witness ==
    \E e \in EntitiesOf(12) :
        /\ InSeq(TagOf(<<"a", "p", "a", "r", "c", ".", "a", "n", "n", "o", "t">>), AfterSegments(e))
        /\ ~InSeq(TagOf(<<"l", "h">>), AfterSegments(e))
        /\ InSeq(Attr(QN("nidm", "AnatomicalAnnotation"),
                      Uri(QN("obo", "UBERON_0002812"))), AfterSegments(e))

---------------------------------------------------------------------------
\* Properties of encode_fs_directory: what the cap counts.

\* regular, not ignored, and encoded without an exception
EncodedOk(f) ==
    /\ Catalog[f].isfile
    /\ ~PathHasIgnoreToken(f)
    /\ Catalog[f].readable
    /\ UnderSubject(f)
\* the files among the first n counted
FirstCounted(n) ==
    {counted[k] : k \in 1..(IF Len(counted) <= n THEN Len(counted) ELSE n)}

\* C26: the count is the number of non-hidden filenames met, in traversal
\* order, each once, whether ignored, non-regular, failing or encoded; a
\* file has an entity exactly when it is among the first n_items of them
\* and is regular, not ignored and encoded without error, and it has
\* exactly one.
C26_CapCountsNonHidden ==
    /\ i = Len(counted)
    /\ \A a, b \in 1..Len(counted) : a # b => counted[a] # counted[b]
    /\ \A k \in 1..Len(counted) : ~Hidden(counted[k])
    /\ \A f \in present :
          Cardinality(EntitiesOf(f)) =
              (IF f \in FirstCounted(n_items) /\ EncodedOk(f) THEN 1 ELSE 0)
    /\ Cardinality(FileEntities)
          = Cardinality({f \in FirstCounted(n_items) : EncodedOk(f)})

\* an ignored file and a non-regular path used up the cap of two before
\* a third, encodable file of a later directory was met
C26_Witness ==
    /\ fs_pc = "returned"
    /\ n_items = 2
    /\ Len(counted) = 3
    /\ ~EncodedOk(counted[1]) /\ ~EncodedOk(counted[2])
    /\ EncodedOk(counted[3])
    /\ Cardinality(FileEntities) = 0

---------------------------------------------------------------------------
\* Further properties of process_collection, parse_stats and csv2provgraph.

\* C24: no row ends the job with an exception; a row whose digests differ
\* is not uploaded, and when the job is over every row whose digests agree
\* has been uploaded, whatever rows came before it.
C24_MismatchSkipsRow ==
    /\ job_pc # "raised"
    /\ \A k \in 1..Len(uploaded) :
          results[uploaded[k]].text = answers[uploaded[k]].text
    /\ job_pc = "done" =>
          \A k \in 1..Len(results) :
              results[k].text = answers[k].text
              => \E u \in 1..Len(uploaded) : uploaded[u] = k

\* C27: in the graph parse_stats returns, every hadMember edge of the stats
\* collection points to the identifier of a record of the graph.
C27_MembersExist ==
    st_pc = "returned" =>
        \A k \in Members(stat_collection) :
            \E r \in 1..Len(g_rec) : g_rec[r].id = g_rel[k].to

\* the row entities, in the order they were made
RowEntities ==
    SelectSeq(g_rec,
              LAMBDA r : InSeq(Attr(QN("prov", "type"), Uri(QN("nidm", "csv_row"))),
                               r.attrs))
\* min(K, R), and R when there is no limit
RowsWanted == 
    IF n_rows = NoRowLimit \/ n_rows >= Len(data) THEN Len(data) ELSE n_rows

\* C28: the graph csv2provgraph returns has min(n_rows, R) row entities (R
\* when n_rows is None), the k-th of them located at k.
C28_RowLimit ==
    csv_pc = "returned" =>
        /\ Len(RowEntities) = RowsWanted
        /\ \A k \in 1..Len(RowEntities) :
              InSeq(Attr(QN("prov", "location"),
                         TypedLit("integer", NatText(k))),
                    RowEntities[k].attrs)

---------------------------------------------------------------------------
\* Properties of read_stats.

TableRecords == SelectSeq(rs_measures, LAMBDA m : m.source = "Table")
\* the position, among the lines, of the first data row and of the
\* declaration that names the structure column
OffsetOfDecls == IF report.preamble THEN 5 ELSE 0
FirstRowAt == OffsetOfDecls + report.rowStart + 1
StructDeclAt ==
    OffsetOfDecls + 3 * (report.s - 1) + 1
       + (IF report.rowStart < 3 * (report.s - 1) + 1 /\ report.structs # <<>>
          THEN 1 ELSE 0)
\* the columns of the report other than the structure column, in order
OtherColumns ==
    SelectSeq([c \in 1..report.n |-> c], LAMBDA c : c # report.s)

\* C23: when read_stats returns for a report whose declarations cover its
\* n columns, the k-th table record is that of the k-th data row: its
\* structure is the token of the structure column, and its items are those
\* of the n-1 other columns, in column order, each with the column header,
\* field name and units declared for its position and the row's value.
C23_RowsByPosition ==
    rs_pc = "returned" =>
        /\ Len(TableRecords) = Len(report.structs)
        /\ \A k \in 1..Len(TableRecords) :
              /\ TableRecords[k].structure = report.structs[k]
              /\ Len(TableRecords[k].items) = report.n - 1
              /\ \A j \in 1..(report.n - 1) :
                    LET c == OtherColumns[j]
                        it == TableRecords[k].items[j]
                    IN /\ it.name = ColumnPool[c].colheader
                       /\ it.description = ColumnPool[c].fieldname
                       /\ it.units = ColumnPool[c].units
                       /\ it.value = NatText(c) \o <<".", "5">>

\* two rows of a three-column report whose structure column is the second
C23_Witness ==
    /\ rs_pc = "returned"
    /\ report.n = 3 /\ report.s = 2
    /\ Len(report.structs) = 2
    /\ Len(TableRecords) = 2
    /\ Len(TableRecords[2].items) = 2

\* C25: a report whose first data row stands before the declaration naming
\* the structure column is never answered with a result: the call is not
\* returned from, and it fails at that row, on the read of the structure
\* column's index, which no statement has assigned yet.
C25_EarlyRowRejected ==
    (report.structs # <<>> /\ FirstRowAt < StructDeclAt) =>
        /\ rs_pc # "returned"
        /\ lpos <= FirstRowAt
        /\ (rs_pc = "loop" => rs_error = "none")
        /\ (rs_pc = "raised" =>
               lpos = FirstRowAt /\ rs_error = "UnboundLocalError")

\* the row stood between the declarations of the first and of the second,
\* the structure, column
C25_Witness ==
    /\ rs_pc = "raised"
    /\ rs_error = "UnboundLocalError"
    /\ report.s = 2
    /\ report.rowStart = 3
    /\ tableinfo # {}

---------------------------------------------------------------------------
\* Properties of FileServer.file.

AllowedDir == <<"/", "m", "i", "n", "d", "h", "i", "v", "e", "/", "x", "n", "a", "t", "/", "s", "u", "r", "f", "a", "c", "e", "s", "/", "a", "d", "h", "d", "2", "0", "0">>
\* the path, resolved, is that of an existing regular file below the
\* directory
InsideDir(path) ==
    /\ StartsWith(path, AllowedDir \o <<"/">>)
    /\ \E f \in ServerFiles : f.path = path /\ f.isfile
Resolved(t) == realpath(UrlPath(file_uri[t]))

\* C29: a request is answered with a uri and md5sum, and a link is made,
\* only for an existing file inside /mindhive/xnat/surfaces/adhd200 after
\* resolution, and every request whose resolved path is outside of that
\* directory ends with status 403 and without a link to its path.
C29_OnlyInsideServed ==
    /\ \A t \in Threads : reply[t].status = 200 => InsideDir(Resolved(t))
    /\ \A l \in links : InsideDir(l.target)
    /\ \A t \in Threads :
          (sv_pc[t] = "done"
             /\ ~StartsWith(Resolved(t), AllowedDir \o <<"/">>))
          => reply[t].status = 403

\* C30: when two threads have answered a request for the same file inside
\* the directory, both answers are successes with the same uri and md5sum,
\* and there is exactly one link of that object hash.
C30_SameFileBothSucceed ==
    \A t, u \in Threads :
        (t # u /\ sv_pc[t] = "done" /\ sv_pc[u] = "done"
           /\ file_uri[t] = file_uri[u] /\ InsideDir(Resolved(t)))
        => /\ reply[t].status = 200
           /\ reply[u] = reply[t]
           /\ Cardinality({l \in links : l.name = object_hash[t]}) = 1

=============================================================================
